---- MODULE Spec2Model ----
(***************************************************************************)
(* A model of EDAP: the pattern analyzer (edap/analyzer.py), its data      *)
(* model (edap/models.py) and the generators built on an AnalysisResult    *)
(* (edap/generators/*.py).                                                 *)
(*                                                                         *)
(* Characters are one-character strings, words are sequences of            *)
(* characters.  Python positions are 0-based and are kept 0-based in every *)
(* statistic; the character of word w at Python position i is w[i + 1].    *)
(***************************************************************************)
EXTENDS Integers, Sequences, FiniteSets, TLC

VARIABLES
    mode,       \* which component the behaviour exercises
    window,     \* PatternAnalyzer: <<min_length, max_length>>
    consumed,   \* PatternAnalyzer: the input lines iterated so far
    an,         \* PatternAnalyzer: the private accumulation state (_words, ...)
    result,     \* PatternAnalyzer: <<the AnalysisResult returned>>, <<>> before
    ls,         \* a standalone LengthStats object
    lsCalls,    \* the add_word calls made on ls: <<word, "ok" | "ValueError">>
    gen,        \* a generator instance (BaseGenerator fields and loop locals)
    twin,       \* a second generator instance, built like gen
    pg          \* PatternGenerator: locals of _generate_from_pattern

vars == <<mode, window, consumed, an, result, ls, lsCalls, gen, twin, pg>>

-----------------------------------------------------------------------------
(* Bounds of the model *)

\* longest input sequence handed to analyze_words
MaxWords == 3
\* number of add_word calls on the standalone LengthStats
MaxAddCalls == 4
\* number of generate calls made on one generator instance
MaxCalls == 2
\* number of states of the seeded random source
RngMod == 16

-----------------------------------------------------------------------------
(* Characters and sequences *)

UpperChars == {"A", "B"}
LowerChars == {"a", "b", "c", "d", "e"}
DigitChars == {"1", "2"}
SymbolChars == {"-", "!"}
Whitespace == {" "}

Range(s) == {s[i] : i \in 1..Len(s)}

RECURSIVE SeqSum(_)
SeqSum(s) == IF s = <<>> THEN 0 ELSE Head(s) + SeqSum(Tail(s))

RECURSIVE SetToSeq(_)
SetToSeq(S) ==
    IF S = {} THEN <<>>
    ELSE LET x == CHOOSE y \in S : TRUE IN <<x>> \o SetToSeq(S \ {x})

\* str.strip(): drop leading and trailing whitespace
RECURSIVE LStrip(_)
LStrip(w) ==
    IF w # <<>> /\ Head(w) \in Whitespace THEN LStrip(Tail(w)) ELSE w

RECURSIVE RStrip(_)
RStrip(w) ==
    IF w # <<>> /\ w[Len(w)] \in Whitespace
    THEN RStrip(SubSeq(w, 1, Len(w) - 1))
    ELSE w

Strip(w) == RStrip(LStrip(w))

-----------------------------------------------------------------------------
(* collections.Counter: keys in insertion order, a missing key counts 0 *)

EmptyCounter == <<>>

CounterKeys(c) == [i \in 1..Len(c) |-> c[i][1]]

CounterGet(c, k) ==
    IF \E i \in 1..Len(c) : c[i][1] = k
    THEN LET i == CHOOSE j \in 1..Len(c) : c[j][1] = k IN c[i][2]
    ELSE 0

\* a variant of CounterInc: a key that is present is incremented only while it
\* is the key added last
CounterIncLastOnly(c, k) ==
    IF \E i \in 1..Len(c) : c[i][1] = k
    THEN [i \in 1..Len(c) |->
            IF c[i][1] = k /\ i = Len(c) THEN <<k, c[i][2] + 1>> ELSE c[i]]
    ELSE Append(c, <<k, 1>>)

CounterInc(c, k) ==
    IF \E i \in 1..Len(c) : c[i][1] = k
    THEN [i \in 1..Len(c) |-> IF c[i][1] = k THEN <<k, c[i][2] + 1>> ELSE c[i]]
    ELSE Append(c, <<k, 1>>)

CounterSum(c) == SeqSum([i \in 1..Len(c) |-> c[i][2]])

-----------------------------------------------------------------------------
(* edap/models.py *)

FromChar(ch) ==
    IF ch \in UpperChars THEN "U"
    ELSE IF ch \in LowerChars THEN "l"
    ELSE IF ch \in DigitChars THEN "n"
    ELSE "@"

\* a variant of AddChar: the type of the character is not counted
AddCharCharsOnly(ps, ch) ==
    [char_counts |-> CounterInc(ps.char_counts, ch), type_counts |-> ps.type_counts]

\* PositionStats.add_char
AddChar(ps, ch) ==
    [char_counts |-> CounterInc(ps.char_counts, ch),
     type_counts |-> CounterInc(ps.type_counts, FromChar(ch))]

\* a variant of GetCharsByType: every character seen at the position
GetCharsAnyType(ps, t) == CounterKeys(ps.char_counts)

\* PositionStats.get_chars_by_type: the characters of one type, in key order
GetCharsByType(ps, t) ==
    SelectSeq(CounterKeys(ps.char_counts), LAMBDA c : FromChar(c) = t)

\* LengthStats(length=n): __post_init__ creates every position eagerly
NewLengthStats(n) ==
    [length |-> n,
     count |-> 0,
     positions |-> [i \in 0..(n - 1) |->
                      [char_counts |-> EmptyCounter, type_counts |-> EmptyCounter]],
     patterns |-> EmptyCounter]

\* a variant of PatternOf: the symbols are joined in reverse order
PatternOfReversed(w) == [i \in 1..Len(w) |-> FromChar(w[Len(w) + 1 - i])]

\* the type pattern add_word builds, one symbol per character
PatternOf(w) == [i \in 1..Len(w) |-> FromChar(w[i])]

\* LengthStats.add_word accepts the word when its length is the object's
AddWordAccepts(l, w) == Len(w) = l.length

\* a variant of AddWordCount: the increment of count is lost
AddWordCountLost(l) == l.count

\* the count after a successful add_word
AddWordCount(l) == l.count + 1

\* the patterns after a successful add_word
AddWordPatterns(l, w) == CounterInc(l.patterns, PatternOf(w))

\* a variant of AddWordRejected: the length is tested after count was incremented
AddWordRejectedLate(l, w) == [l EXCEPT !.count = @ + 1]

\* the LengthStats a rejected add_word leaves behind: the length test is the
\* first statement, the ValueError is raised before any update
AddWordRejected(l, w) == l

\* LengthStats.add_word on a word it accepts
AddWord(l, w) ==
    [length |-> l.length,
     count |-> AddWordCount(l),
     positions |-> [i \in DOMAIN l.positions |-> AddChar(l.positions[i], w[i + 1])],
     patterns |-> AddWordPatterns(l, w)]

-----------------------------------------------------------------------------
(* edap/analyzer.py *)

\* the part of FULL_KEYBOARD that lies in the model's character universe
FullKeyboard == UpperChars \cup LowerChars \cup DigitChars \cup SymbolChars

\* PatternAnalyzer._reset
ResetState ==
    [words |-> <<>>,
     unique |-> {},
     charset |-> {},
     length_keys |-> <<>>,
     length_stats |-> <<>>,
     gcf |-> EmptyCounter,
     gtf |-> EmptyCounter,
     cooc |-> {},
     analyzed |-> FALSE]

RECURSIVE CounterIncAll(_, _)
CounterIncAll(c, ks) ==
    IF ks = <<>> THEN c ELSE CounterIncAll(CounterInc(c, Head(ks)), Tail(ks))

\* the co-occurrence entries one word adds: cooc[w[i]][i][j].add(w[j]) for i != j,
\* an entry <<c, i, j, d>> standing for d \in cooccurrence[c][i][j]
CoocPairs(w) ==
    {<<w[i + 1], i, j, w[j + 1]>> : i \in 0..(Len(w) - 1), j \in 0..(Len(w) - 1)}

\* a variant of CoocOfWord: every character of the word is recorded at every
\* pair of distinct positions
CoocOfWordAnyChar(w) ==
    {e \in {<<c, i, j, d>> : c \in Range(w), i \in 0..(Len(w) - 1),
                             j \in 0..(Len(w) - 1), d \in Range(w)} : e[2] # e[3]}

\* a variant of CoocOfWord: only the pairs with i before j are recorded
CoocOfWordForward(w) == {e \in CoocPairs(w) : e[2] < e[3]}

CoocOfWord(w) == {e \in CoocPairs(w) : e[2] # e[3]}

\* cooccurrence[c][i][j], empty when a key is missing
CoocGet(cooc, c, i, j) == {e[4] : e \in {x \in cooc : x[1] = c /\ x[2] = i /\ x[3] = j}}

\* char in cooc and pos in cooc[char] and target_pos in cooc[char][pos]
CoocHas(cooc, c, i, j) == \E x \in cooc : x[1] = c /\ x[2] = i /\ x[3] = j

\* the length statistics after one more word: created on first use, then add_word
LengthStatsWith(lst, w) ==
    LET n == Len(w)
        old == IF n \in DOMAIN lst THEN lst[n] ELSE NewLengthStats(n)
    IN [k \in DOMAIN lst \cup {n} |-> IF k = n THEN AddWord(old, w) ELSE lst[k]]

\* the set of unique words after one more word
UniqueWith(u, w) == u \cup {w}

\* PatternAnalyzer._process_word
ProcessWord(a, w) ==
    [words |-> Append(a.words, w),
     unique |-> UniqueWith(a.unique, w),
     charset |-> a.charset \cup Range(w),
     length_keys |-> IF Len(w) \in DOMAIN a.length_stats
                     THEN a.length_keys ELSE Append(a.length_keys, Len(w)),
     length_stats |-> LengthStatsWith(a.length_stats, w),
     gcf |-> CounterIncAll(a.gcf, w),
     gtf |-> CounterIncAll(a.gtf, PatternOf(w)),
     cooc |-> a.cooc \cup CoocOfWord(w),
     analyzed |-> a.analyzed]

\* a variant of Retained: the upper end of the window is not tested
RetainedNoMax(line, win) ==
    LET w == Strip(line)
    IN w # <<>> /\ ~(Len(w) < win[1])

\* a variant of Retained: the lower end of the window is not tested
RetainedNoMin(line, win) ==
    LET w == Strip(line)
    IN w # <<>> /\ ~(Len(w) > win[2])

\* the test of _analyze_stream: the stripped line is non-empty and its length
\* lies inside [min_length, max_length]
Retained(line, win) ==
    LET w == Strip(line)
    IN w # <<>> /\ ~(Len(w) < win[1] \/ Len(w) > win[2])

\* one iteration of the loop of _analyze_stream
AnalyzeStep(a, line, win) ==
    IF Retained(line, win) THEN ProcessWord(a, Strip(line)) ELSE a

SetMin(S) == CHOOSE x \in S : \A y \in S : x <= y
SetMax(S) == CHOOSE x \in S : \A y \in S : x >= y

\* PatternAnalyzer._build_result (after _analyzed was set)
BuildResult(a) ==
    LET lengths == DOMAIN a.length_stats
    IN [total_words |-> Len(a.words),
        unique_words |-> Cardinality(a.unique),
        charset |-> a.charset,
        discarded_charset |-> FullKeyboard \ a.charset,
        length_keys |-> a.length_keys,
        length_stats |-> a.length_stats,
        global_char_frequency |-> a.gcf,
        global_type_frequency |-> a.gtf,
        min_length |-> IF lengths # {} THEN SetMin(lengths) ELSE 0,
        max_length |-> IF lengths # {} THEN SetMax(lengths) ELSE 0,
        cooccurrence |-> a.cooc]

RECURSIVE AnalyzeStream(_, _, _)
AnalyzeStream(a, lines, win) ==
    IF lines = <<>> THEN [a EXCEPT !.analyzed = TRUE]
    ELSE AnalyzeStream(AnalyzeStep(a, Head(lines), win), Tail(lines), win)

\* PatternAnalyzer(min_length, max_length).analyze_words(words)
AnalyzeWords(lines, win) == BuildResult(AnalyzeStream(ResetState, lines, win))

\* the input lines the analyzer is driven with
Lines ==
    {<<>>, <<" ">>, <<"a">>, <<"a", " ">>, <<"a", "b">>, <<" ", "b", "a">>,
     <<"a", "b", "c">>, <<"a", "e", "c">>, <<"A", "b", "1">>}

\* the length windows: the default (analyzer.py, __init__) and narrower ones
Windows == {<<1, 256>>, <<2, 2>>, <<0, 1>>}

Idle ==
    /\ ls = NewLengthStats(0)
    /\ lsCalls = <<>>
    /\ gen = <<>>
    /\ twin = <<>>
    /\ pg = <<>>

InitAnalyzer ==
    /\ mode = "analyzer"
    /\ window \in Windows
    /\ consumed = <<>>
    /\ an = ResetState
    /\ result = <<>>
    /\ Idle

\* _analyze_stream takes the next line of the input
AnalyzeLine(line) ==
    /\ result = <<>>
    /\ Len(consumed) < MaxWords
    /\ consumed' = Append(consumed, line)
    /\ an' = AnalyzeStep(an, line, window)
    /\ UNCHANGED <<mode, window, result, ls, lsCalls, gen, twin, pg>>

\* the input is exhausted: _analyzed is set and analyze_words returns _build_result()
AnalyzeReturn ==
    /\ result = <<>>
    /\ an' = [an EXCEPT !.analyzed = TRUE]
    /\ result' = <<BuildResult(an')>>
    /\ UNCHANGED <<mode, window, consumed, ls, lsCalls, gen, twin, pg>>

\* analyze_words is called again on the same analyzer: _reset
AnalyzeAgain ==
    /\ result # <<>>
    /\ consumed' = <<>>
    /\ an' = ResetState
    /\ result' = <<>>
    /\ UNCHANGED <<mode, window, ls, lsCalls, gen, twin, pg>>

NextAnalyzer ==
    \/ \E line \in Lines : AnalyzeLine(line)
    \/ AnalyzeReturn
    \/ AnalyzeAgain

SpecAnalyzer == InitAnalyzer /\ [][NextAnalyzer]_vars

-----------------------------------------------------------------------------
(* A standalone LengthStats driven by add_word calls (edap/models.py) *)

\* the lengths a standalone LengthStats is created with
LsLengths == {0, 1, 2}

\* the words add_word is called with
LsWords == {<<>>, <<"a">>, <<"A">>, <<"a", "1">>, <<"b", "2">>, <<"A", "-">>}

InitLengthStats ==
    /\ mode = "length_stats"
    /\ \E n \in LsLengths : ls = NewLengthStats(n)
    /\ lsCalls = <<>>
    /\ window = <<1, 256>>
    /\ consumed = <<>>
    /\ an = ResetState
    /\ result = <<>>
    /\ gen = <<>>
    /\ twin = <<>>
    /\ pg = <<>>

\* LengthStats.add_word(w): ValueError before anything is changed, or the update
LsAddWord(w) ==
    /\ Len(lsCalls) < MaxAddCalls
    /\ IF AddWordAccepts(ls, w)
       THEN /\ ls' = AddWord(ls, w)
            /\ lsCalls' = Append(lsCalls, <<w, "ok">>)
       ELSE /\ ls' = AddWordRejected(ls, w)
            /\ lsCalls' = Append(lsCalls, <<w, "ValueError">>)
    /\ UNCHANGED <<mode, window, consumed, an, result, gen, twin, pg>>

NextLengthStats == \E w \in LsWords : LsAddWord(w)

SpecLengthStats == InitLengthStats /\ [][NextLengthStats]_vars

-----------------------------------------------------------------------------
(* edap/generators/base.py: BaseGenerator.generate over any generate_one *)

\* generate: "if max_attempts == 0: max_attempts = count * 100"
AttemptsPerCount == 100

\* the outcome of one generate_one call: a word, or None
NoWord == [kind |-> "none", word |-> <<>>]
AWord(w) == [kind |-> "word", word |-> w]

\* the attempt budget of a generate call
AttemptBudget(count, max_attempts) ==
    IF max_attempts = 0 THEN count * AttemptsPerCount ELSE max_attempts

\* a variant of LoopContinues: the loop does not stop at count results
LoopContinuesPastCount(g) == g.attempts < g.budget

\* the loop condition of generate
LoopContinues(g) == Len(g.results) < g.count /\ g.attempts < g.budget

\* a variant of IsDuplicate: the already generated strings are not consulted
IsDuplicateOriginalOnly(g, w) == g.exclude_original /\ w \in g.original

\* BaseGenerator.is_duplicate
IsDuplicate(g, w) ==
    IF g.exclude_original /\ w \in g.original THEN TRUE ELSE w \in g.generated

\* the words an arbitrary generate_one may return (besides None)
GenWords == {<<"a">>, <<"a", "b">>}

\* the sets handed to set_original_words before generating
GenOriginals == {{}, {<<"a">>}}

\* the (count, max_attempts) arguments of the generate calls
GenCalls == {<<0, 0>>, <<1, 0>>, <<2, 3>>, <<3, 2>>}

\* BaseGenerator.__init__, then set_original_words
NewGenerator(exclude, original) ==
    [exclude_original |-> exclude,
     original |-> original,
     generated |-> {},
     pc |-> "idle",
     count |-> 0,
     max_attempts |-> 0,
     budget |-> 0,
     allow_duplicates |-> FALSE,
     results |-> <<>>,
     attempts |-> 0,
     calls |-> 0,
     returned |-> <<>>,
     defaults_only |-> TRUE,
     use_secure_random |-> TRUE,
     rng |-> 0,
     raised |-> FALSE,
     use_position_charset |-> TRUE]

InitGenerate ==
    /\ mode = "generate"
    /\ \E ex \in BOOLEAN, orig \in GenOriginals : gen = NewGenerator(ex, orig)
    /\ window = <<1, 256>>
    /\ consumed = <<>>
    /\ an = ResetState
    /\ result = <<>>
    /\ ls = NewLengthStats(0)
    /\ lsCalls = <<>>
    /\ twin = <<>>
    /\ pg = <<>>

\* generate(count, max_attempts, allow_duplicates) is entered
GCall(g, count, max_attempts, allow) ==
    [g EXCEPT !.pc = "loop",
              !.count = count,
              !.max_attempts = max_attempts,
              !.budget = AttemptBudget(count, max_attempts),
              !.allow_duplicates = allow,
              !.results = <<>>,
              !.attempts = 0,
              !.calls = @ + 1,
              !.defaults_only = @ /\ ~allow]

\* one iteration of the while loop of generate, generate_one having returned out
GAttempt(g, out) ==
    IF out.kind = "none"
    THEN [g EXCEPT !.attempts = @ + 1]
    ELSE IF ~g.allow_duplicates /\ IsDuplicate(g, out.word)
    THEN [g EXCEPT !.attempts = @ + 1]
    ELSE [g EXCEPT !.attempts = @ + 1,
                   !.results = Append(@, out.word),
                   !.generated = @ \cup {out.word}]

\* the loop condition fails: generate returns results
GReturn(g) == [g EXCEPT !.pc = "idle", !.returned = Append(@, g.results)]

GenerateCall(count, max_attempts, allow) ==
    /\ gen.pc = "idle"
    /\ gen.calls < MaxCalls
    /\ gen' = GCall(gen, count, max_attempts, allow)
    /\ UNCHANGED <<mode, window, consumed, an, result, ls, lsCalls, twin, pg>>

GenerateAttempt(out) ==
    /\ gen.pc = "loop"
    /\ LoopContinues(gen)
    /\ gen' = GAttempt(gen, out)
    /\ UNCHANGED <<mode, window, consumed, an, result, ls, lsCalls, twin, pg>>

GenerateReturn ==
    /\ gen.pc = "loop"
    /\ ~LoopContinues(gen)
    /\ gen' = GReturn(gen)
    /\ UNCHANGED <<mode, window, consumed, an, result, ls, lsCalls, twin, pg>>

GenerateStep ==
    \/ \E out \in {NoWord} \cup {AWord(w) : w \in GenWords} : GenerateAttempt(out)
    \/ GenerateReturn

NextGenerate ==
    \/ \E c \in GenCalls, allow \in BOOLEAN : GenerateCall(c[1], c[2], allow)
    \/ GenerateStep

SpecGenerate == InitGenerate /\ [][NextGenerate]_vars

\* the interpreter keeps executing a generate call that was entered
SpecGenerateFair == SpecGenerate /\ WF_vars(GenerateStep)

-----------------------------------------------------------------------------
(* The random source of a generator (edap/generators/base.py) *)

\* random.Random(seed): a deterministic source; its state after seeding
RngSeed(seed) == seed % RngMod

\* the state after one more draw, which is also the raw value drawn
RngNext(x) == (5 * x + 3) % RngMod

\* the raw values of the next n draws of a seeded source in state x
RECURSIVE SeededDraws(_, _)
SeededDraws(x, n) ==
    IF n = 0 THEN <<>> ELSE <<RngNext(x)>> \o SeededDraws(RngNext(x), n - 1)

RECURSIVE RngAdvance(_, _)
RngAdvance(x, n) == IF n = 0 THEN x ELSE RngAdvance(RngNext(x), n - 1)

\* a variant of UsesSecureRandom: every draw is taken from the secrets module
UsesSecureRandomAlways(g) == TRUE

\* _random_choice and _weighted_choice: "if self._use_secure_random"
UsesSecureRandom(g) == g.use_secure_random

\* the raw values the next n draws of generator g may yield: anything from the
\* secrets module (range wide enough to reach every index), or the seeded stream
DrawChoices(g, n, range) ==
    IF UsesSecureRandom(g) THEN [1..n -> 0..(range - 1)] ELSE {SeededDraws(g.rng, n)}

\* the source after n draws
AfterDraws(g, n) ==
    IF g.use_secure_random THEN g ELSE [g EXCEPT !.rng = RngAdvance(@, n)]

\* BaseGenerator._random_choice on a non-empty list, the source yielding raw
RandomChoice(seq, raw) == seq[(raw % Len(seq)) + 1]

\* a variant of WeightedWalk: an item is taken as soon as the cumulative weight
\* reaches r
RECURSIVE WeightedWalkReaches(_, _, _, _)
WeightedWalkReaches(ws, r, i, cumulative) ==
    IF i > Len(ws) THEN Len(ws)
    ELSE IF r <= cumulative + ws[i][2] THEN i
    ELSE WeightedWalkReaches(ws, r, i + 1, cumulative + ws[i][2])

\* the walk of _weighted_choice: the first index whose cumulative weight exceeds r
RECURSIVE WeightedWalk(_, _, _, _)
WeightedWalk(ws, r, i, cumulative) ==
    IF i > Len(ws) THEN Len(ws)
    ELSE IF r < cumulative + ws[i][2] THEN i
    ELSE WeightedWalk(ws, r, i + 1, cumulative + ws[i][2])

\* BaseGenerator._weighted_choice on a non-empty dict (a Counter-like sequence of
\* <<item, weight>> in insertion order), the source yielding raw
WeightedChoice(ws, raw) ==
    LET total == CounterSum(ws)
    IN IF total = 0
       THEN RandomChoice(CounterKeys(ws), raw)
       ELSE ws[WeightedWalk(ws, raw % total, 1, 0)][1]

\* an exception leaving generate_one
Raised(what) == [kind |-> "raise", word |-> <<what>>]

\* the dict _choose_length builds: length -> count, in the order of length_stats
LengthWeights(res) ==
    [i \in 1..Len(res.length_keys) |->
        <<res.length_keys[i], res.length_stats[res.length_keys[i]].count>>]

\* every order in which iterating a set may yield its elements
Orders(S) == {f \in [1..Cardinality(S) -> S] : Range(f) = S}

-----------------------------------------------------------------------------
(* edap/generators/random_gen.py *)

\* a variant of RandomPositionList: every position draws from the global charset
RandomPositionListGlobal(res, charset_list, use_position_charset, lst, pos) ==
    charset_list

\* the list a position of RandomGenerator.generate_one draws from
RandomPositionList(res, charset_list, use_position_charset, lst, pos) ==
    IF use_position_charset /\ lst.count > 1 /\ pos \in DOMAIN lst.positions
    THEN IF Len(lst.positions[pos].char_counts) > 1
         THEN CounterKeys(lst.positions[pos].char_counts)
         ELSE charset_list
    ELSE charset_list

\* RandomGenerator.generate_one with the raw draws d: the outcome and the number
\* of draws made
RandomGenerateOne(res, charset_list, use_position_charset, d) ==
    LET lw == LengthWeights(res)
    IN IF lw = <<>>
       THEN [out |-> Raised("ValueError: Cannot choose from empty weights"), used |-> 0]
       ELSE LET length == WeightedChoice(lw, d[1])
                lst == res.length_stats[length]
            IN [out |-> AWord([i \in 1..length |->
                           RandomChoice(RandomPositionList(res, charset_list,
                                            use_position_charset, lst, i - 1),
                                        d[i + 1])]),
                used |-> 1 + length]

\* the corpora a RandomGenerator is built on; the first is empty
RandomCorpora ==
    {<<>>, <<<<"a", "b">>>>, <<<<"a", "b">>, <<"b", "a">>>>,
     <<<<"a">>, <<"a", "b">>, <<"c", "b">>>>}

\* the seeds the generators are built with
RandomSeeds == {1, 2, 7}

\* the (count, max_attempts) arguments of generate
RandomCalls == {<<1, 0>>, <<2, 3>>}

\* RandomGenerator(analysis, seed, exclude_original, use_position_charset), then
\* set_original_words
NewRandomGenerator(exclude, original, secure, seed, upc) ==
    [NewGenerator(exclude, original) EXCEPT
        !.use_secure_random = secure,
        !.rng = IF secure THEN 0 ELSE RngSeed(seed),
        !.use_position_charset = upc]

\* result[2] is the order in which the set result[1].charset iterates, gen and
\* twin are two instances built with the same seed over the same AnalysisResult
InitRandom ==
    /\ mode = "random"
    /\ window = <<1, 256>>
    /\ \E corpus \in RandomCorpora :
          /\ consumed = corpus
          /\ \E order \in Orders(AnalyzeWords(corpus, window).charset) :
                result = <<AnalyzeWords(corpus, window), order>>
          /\ \E ex \in BOOLEAN, seed \in RandomSeeds, upc \in BOOLEAN :
                /\ gen = NewRandomGenerator(ex, Range(corpus), FALSE, seed, upc)
                /\ twin = gen
    /\ an = ResetState
    /\ ls = NewLengthStats(0)
    /\ lsCalls = <<>>
    /\ pg = <<>>

\* the number of draws one generate_one may make, and the width of a raw draw
\* that reaches every index of every list and every weight total
RandomDrawCount == 1 + result[1].max_length
RandomDrawRange ==
    IF result[1].total_words > Cardinality(result[1].charset)
    THEN result[1].total_words ELSE Cardinality(result[1].charset)

\* one iteration of the loop of generate on a RandomGenerator g
RandomAttempt(g, d) ==
    LET r == RandomGenerateOne(result[1], result[2], g.use_position_charset, d)
    IN IF r.out.kind = "raise"
       THEN [g EXCEPT !.pc = "idle", !.attempts = @ + 1, !.raised = TRUE]
       ELSE AfterDraws(GAttempt(g, r.out), r.used)

\* gen.generate(count, max_attempts) is entered; the twin has caught up
RandomCall(c) ==
    /\ gen.pc = "idle"
    /\ twin.pc = "idle"
    /\ twin.calls = gen.calls
    /\ gen.calls < MaxCalls
    /\ gen' = GCall(gen, c[1], c[2], FALSE)
    /\ UNCHANGED <<mode, window, consumed, an, result, ls, lsCalls, twin, pg>>

RandomLoop ==
    /\ gen.pc = "loop"
    /\ IF LoopContinues(gen)
       THEN \E d \in DrawChoices(gen, RandomDrawCount, RandomDrawRange) :
               gen' = RandomAttempt(gen, d)
       ELSE gen' = GReturn(gen)
    /\ UNCHANGED <<mode, window, consumed, an, result, ls, lsCalls, twin, pg>>

\* the twin is driven with the call gen was driven with.  The two instances
\* share only the AnalysisResult, which generate does not write, so running
\* their calls one after the other loses no behaviour of either.
TwinCall ==
    /\ gen.pc = "idle"
    /\ twin.pc = "idle"
    /\ twin.calls < gen.calls
    /\ twin' = GCall(twin, gen.count, gen.max_attempts, FALSE)
    /\ UNCHANGED <<mode, window, consumed, an, result, ls, lsCalls, gen, pg>>

TwinLoop ==
    /\ twin.pc = "loop"
    /\ IF LoopContinues(twin)
       THEN \E d \in DrawChoices(twin, RandomDrawCount, RandomDrawRange) :
               twin' = RandomAttempt(twin, d)
       ELSE twin' = GReturn(twin)
    /\ UNCHANGED <<mode, window, consumed, an, result, ls, lsCalls, gen, pg>>

NextRandom ==
    \/ \E c \in RandomCalls : RandomCall(c)
    \/ RandomLoop
    \/ TwinCall
    \/ TwinLoop

SpecRandom == InitRandom /\ [][NextRandom]_vars

-----------------------------------------------------------------------------
(* RandomGenerator.generate_one called directly, unseeded *)

\* result[2] is the order in which the set result[1].charset iterates
InitRandomOne ==
    /\ mode = "random_one"
    /\ window = <<1, 256>>
    /\ \E corpus \in RandomCorpora :
          /\ consumed = corpus
          /\ \E order \in Orders(AnalyzeWords(corpus, window).charset) :
                result = <<AnalyzeWords(corpus, window), order>>
    /\ \E upc \in BOOLEAN :
          gen = [use_position_charset |-> upc, called |-> FALSE, out |-> NoWord]
    /\ an = ResetState
    /\ ls = NewLengthStats(0)
    /\ lsCalls = <<>>
    /\ twin = <<>>
    /\ pg = <<>>

\* generate_one() with the raw draws d of the secrets module
RandomOneCall(d) ==
    /\ gen' = [gen EXCEPT !.called = TRUE,
                          !.out = RandomGenerateOne(result[1], result[2],
                                      gen.use_position_charset, d).out]
    /\ UNCHANGED <<mode, window, consumed, an, result, ls, lsCalls, twin, pg>>

NextRandomOne ==
    \E d \in [1..RandomDrawCount -> 0..(RandomDrawRange - 1)] : RandomOneCall(d)

SpecRandomOne == InitRandomOne /\ [][NextRandomOne]_vars

-----------------------------------------------------------------------------
(* BaseGenerator._weighted_choice called on its own, unseeded *)

\* the largest weight of an item
MaxWeight == 2

\* the weight maps: up to three items in every insertion order, every weight
ChoiceItems == {"a", "b", "c"}
ChoiceMaps ==
    UNION {{[i \in 1..n |-> <<keys[i], weights[i]>>] :
               keys \in {f \in [1..n -> ChoiceItems] :
                            \A i, j \in 1..n : f[i] = f[j] => i = j},
               weights \in [1..n -> 0..MaxWeight]} : n \in 0..3}

InitChoice ==
    /\ mode = "choice"
    /\ \E weights \in ChoiceMaps :
          gen = [weights |-> weights, called |-> FALSE, raw |-> 0, out |-> NoWord]
    /\ window = <<1, 256>>
    /\ consumed = <<>>
    /\ an = ResetState
    /\ result = <<>>
    /\ ls = NewLengthStats(0)
    /\ lsCalls = <<>>
    /\ twin = <<>>
    /\ pg = <<>>

\* what the secrets module may yield: randbelow(total), or the index that
\* choice(items) takes when the total is 0
ChoiceDraws(weights) ==
    IF weights = <<>> THEN {0}
    ELSE IF CounterSum(weights) = 0 THEN 0..(Len(weights) - 1)
    ELSE 0..(CounterSum(weights) - 1)

\* _weighted_choice(weights), the source yielding raw
ChoiceCall(raw) ==
    /\ gen' = [gen EXCEPT
                  !.called = TRUE,
                  !.raw = raw,
                  !.out = IF gen.weights = <<>>
                          THEN Raised("ValueError: Cannot choose from empty weights")
                          ELSE AWord(<<WeightedChoice(gen.weights, raw)>>)]
    /\ UNCHANGED <<mode, window, consumed, an, result, ls, lsCalls, twin, pg>>

NextChoice == \E raw \in ChoiceDraws(gen.weights) : ChoiceCall(raw)

SpecChoice == InitChoice /\ [][NextChoice]_vars

-----------------------------------------------------------------------------
(* edap/generators/pattern.py *)

\* the longest pattern handed to generate_from_explicit_pattern
MaxPatternLen == 2

\* the values of CharType
TypeCodes == {"U", "l", "n", "@"}

\* a variant of GetCharsetByType: the type is not tested
GetCharsetAnyType(res, t) == SetToSeq(res.charset)

\* list(analysis.get_charset_by_type(t)).  The list is drawn from with an
\* arbitrary draw, so fixing the order of the set loses no outcome.
GetCharsetByType(res, t) == SetToSeq({c \in res.charset : FromChar(c) = t})

\* char_counts.get(c, 1): the count of a key, 1 for a missing key
CountOrOne(counter, c) ==
    IF \E i \in 1..Len(counter) : counter[i][1] = c THEN CounterGet(counter, c) ELSE 1

\* {c: pos_counts.get(c, 1) for c in chars}
TypedWeights(ps, chars) ==
    [i \in 1..Len(chars) |-> <<chars[i], CountOrOne(ps.char_counts, chars[i])>>]

\* PatternGenerator._get_char_of_type, the source yielding raw: <<c>> for a
\* character c, <<>> for None
GetCharOfType(res, pos, t, lst, raw) ==
    IF pos \notin DOMAIN lst.positions
    THEN LET global == GetCharsetByType(res, t)
         IN IF global # <<>> THEN <<RandomChoice(global, raw)>> ELSE <<>>
    ELSE LET ps == lst.positions[pos]
             at_pos == GetCharsByType(ps, t)
             chars_of_type == IF at_pos = <<>> THEN GetCharsetByType(res, t) ELSE at_pos
         IN IF chars_of_type # <<>>
            THEN <<WeightedChoice(TypedWeights(ps, chars_of_type), raw)>>
            ELSE <<>>

\* the positions of current that hold a character and restrict target_pos
Restricting(current, target_pos, cooc) ==
    {p \in 0..(Len(current) - 1) :
        /\ current[p + 1] # ""
        /\ CoocHas(cooc, current[p + 1], p, target_pos)}

\* PatternGenerator._find_compatible_typed_chars: the candidates of the type at
\* the position, intersected with what each placed character was seen with
FindCompatibleTypedChars(current, target_pos, t, lst, cooc) ==
    IF target_pos \notin DOMAIN lst.positions THEN <<>>
    ELSE LET candidates == Range(GetCharsByType(lst.positions[target_pos], t))
         IN SetToSeq({c \in candidates :
                \A p \in Restricting(current, target_pos, cooc) :
                    c \in CoocGet(cooc, current[p + 1], p, target_pos)})

\* "".join(result)
Join(r) == SelectSeq(r, LAMBDA c : c # "")

\* list.remove(pos)
Remove(positions, pos) == SelectSeq(positions, LAMBDA x : x # pos)

\* PatternGenerator._generate_from_pattern_global with the raw draws d
RECURSIVE GenerateFromPatternGlobal(_, _, _, _)
GenerateFromPatternGlobal(res, pattern, d, acc) ==
    IF pattern = <<>> THEN AWord(acc)
    ELSE LET chars_of_type == GetCharsetByType(res, Head(pattern))
         IN IF chars_of_type # <<>>
            THEN GenerateFromPatternGlobal(res, Tail(pattern), Tail(d),
                     Append(acc, RandomChoice(chars_of_type, Head(d))))
            ELSE NoWord

\* the state of a PatternGenerator between calls
NewPatternGenerator(max_retries) ==
    [pc |-> "idle", kind |-> "none", pattern |-> <<>>, positions |-> <<>>,
     result |-> <<>>, retries |-> 0, max_retries |-> max_retries,
     out |-> NoWord]

\* a call returns out
PatternReturn(g, out) == [g EXCEPT !.pc = "idle", !.out = out]

\* _generate_from_pattern up to the loop: the global path for an unobserved
\* length, else the start position and its character
GenerateFromPatternStart(g, res, pattern, d) ==
    LET length == Len(pattern)
        h == [g EXCEPT !.pattern = pattern, !.positions = <<>>, !.result = <<>>,
                       !.retries = 0]
    IN IF length \notin DOMAIN res.length_stats
       THEN PatternReturn(h, GenerateFromPatternGlobal(res, pattern, d, <<>>))
       ELSE LET lst == res.length_stats[length]
                positions == [i \in 1..length |-> i - 1]
                start_pos == RandomChoice(positions, d[1])
                start_char == GetCharOfType(res, start_pos, pattern[start_pos + 1],
                                            lst, d[2])
            IN IF start_char = <<>>
               THEN PatternReturn(h, NoWord)
               ELSE [h EXCEPT !.pc = "fill",
                              !.positions = Remove(positions, start_pos),
                              !.result = [i \in 1..length |->
                                  IF i = start_pos + 1 THEN start_char[1] ELSE ""]]


\* one iteration of the loop of _generate_from_pattern: d1 picks the position,
\* d2 the character
GenerateFromPatternFill(g, res, d1, d2) ==
    LET lst == res.length_stats[Len(g.pattern)]
        has_variety == lst.count > 1
        pos == RandomChoice(g.positions, d1)
        required_type == g.pattern[pos + 1]
        compatible == IF has_variety
                      THEN FindCompatibleTypedChars(g.result, pos, required_type,
                                                    lst, res.cooccurrence)
                      ELSE <<>>
        placed(c) == [g EXCEPT !.result[pos + 1] = c,
                               !.positions = Remove(@, pos),
                               !.retries = 0]
    IN IF Len(compatible) > 1
       THEN placed(WeightedChoice(TypedWeights(lst.positions[pos], compatible), d2))
       ELSE LET char == GetCharOfType(res, pos, required_type, lst, d2)
            IN IF char # <<>> THEN placed(char[1])
               ELSE [g EXCEPT !.retries = @ + 1]

\* the code after the loop, positions being what is left: each left position
\* is filled by _get_char_of_type, the first failure returns None
RECURSIVE GenerateFromPatternRest(_, _, _, _, _)
GenerateFromPatternRest(res, pattern, positions, r, d) ==
    IF positions = <<>> THEN AWord(Join(r))
    ELSE LET pos == Head(positions)
             char == GetCharOfType(res, pos, pattern[pos + 1],
                                   res.length_stats[Len(pattern)], Head(d))
         IN IF char # <<>>
            THEN GenerateFromPatternRest(res, pattern, Tail(positions),
                                         [r EXCEPT ![pos + 1] = char[1]], Tail(d))
            ELSE NoWord

\* the loop condition of _generate_from_pattern
FillContinues(g) == g.positions # <<>> /\ g.retries < g.max_retries

\* PatternGenerator._choose_pattern: <<p>> for a pattern p, <<>> for None
ChoosePattern(res, length, raw) ==
    IF length \notin DOMAIN res.length_stats THEN <<>>
    ELSE IF res.length_stats[length].patterns = <<>> THEN <<>>
    ELSE <<WeightedChoice(res.length_stats[length].patterns, raw)>>

\* PatternGenerator.generate_one up to the loop of _generate_from_pattern
PatternGenerateOneStart(g, res, d) ==
    LET lw == LengthWeights(res)
    IN IF lw = <<>>
       THEN PatternReturn(g, Raised("ValueError: Cannot choose from empty weights"))
       ELSE LET length == WeightedChoice(lw, d[1])
                pattern == ChoosePattern(res, length, d[2])
            IN IF length \notin DOMAIN res.length_stats THEN PatternReturn(g, NoWord)
               ELSE IF pattern = <<>> \/ pattern[1] = <<>> \/ Len(pattern[1]) # length
               THEN PatternReturn(g, NoWord)
               ELSE GenerateFromPatternStart(g, res, pattern[1], Tail(Tail(d)))

\* the corpora a PatternGenerator is built on; the first is empty
PatternCorpora ==
    {<<>>,
     <<<<"a", "b">>>>,
     <<<<"a", "1">>, <<"1", "a">>>>,
     <<<<"a", "b">>, <<"a", "d">>, <<"c", "b">>>>,
     <<<<"a">>, <<"A", "1", "b">>, <<"A", "2", "c">>>>}

\* the values of max_retries_per_position; the last is the default
PatternMaxRetries == {0, 2, 100}

\* the pattern strings handed to generate_from_explicit_pattern: strings of
\* CharType values, the empty one included
ExplicitPatterns ==
    UNION {[1..n -> TypeCodes] : n \in 0..MaxPatternLen}

\* PatternGenerator(analysis, max_retries_per_position = m), built without a
\* seed: every draw comes from the secrets module
InitPattern ==
    /\ mode = "pattern"
    /\ window = <<1, 256>>
    /\ \E corpus \in PatternCorpora :
          /\ consumed = corpus
          /\ result = <<AnalyzeWords(corpus, window)>>
    /\ \E m \in PatternMaxRetries : pg = NewPatternGenerator(m)
    /\ an = ResetState
    /\ ls = NewLengthStats(0)
    /\ lsCalls = <<>>
    /\ gen = <<>>
    /\ twin = <<>>

\* the width of a raw draw that reaches every index of every list and every
\* weight total, and the draws one step may make
PatternDrawRange ==
    LET a == result[1].total_words
        b == Cardinality(result[1].charset)
        c == MaxPatternLen
    IN SetMax({a, b, c, 1})
PatternDraws(n) == [1..n -> 0..(PatternDrawRange - 1)]


\* generate_from_explicit_pattern(p) is called and runs up to the loop.  Neither
\* this call nor generate_one writes an attribute of the generator, so a call
\* on a fresh instance shows everything a later call can do.
PatternExplicitCall(p) ==
    /\ pg.pc = "idle"
    /\ pg.kind = "none"
    /\ \E d \in PatternDraws(SetMax({2, Len(p)})) :
          pg' = GenerateFromPatternStart([pg EXCEPT !.kind = "explicit"],
                                         result[1], p, d)
    /\ UNCHANGED <<mode, window, consumed, an, result, ls, lsCalls, gen, twin>>

\* generate_one() is called and runs up to the loop
PatternGenerateOneCall ==
    /\ pg.pc = "idle"
    /\ pg.kind = "none"
    /\ \E d \in PatternDraws(4) :
          pg' = PatternGenerateOneStart([pg EXCEPT !.kind = "one"], result[1], d)
    /\ UNCHANGED <<mode, window, consumed, an, result, ls, lsCalls, gen, twin>>

\* one iteration of the loop
PatternFillStep ==
    /\ pg.pc = "fill"
    /\ FillContinues(pg)
    /\ \E d \in PatternDraws(2) :
          pg' = GenerateFromPatternFill(pg, result[1], d[1], d[2])
    /\ UNCHANGED <<mode, window, consumed, an, result, ls, lsCalls, gen, twin>>

\* the loop is left and the call returns
PatternFinish ==
    /\ pg.pc = "fill"
    /\ ~FillContinues(pg)
    /\ \E d \in PatternDraws(Len(pg.positions)) :
          pg' = PatternReturn(pg, GenerateFromPatternRest(result[1], pg.pattern,
                                      pg.positions, pg.result, d))
    /\ UNCHANGED <<mode, window, consumed, an, result, ls, lsCalls, gen, twin>>

NextPattern ==
    \/ \E p \in ExplicitPatterns : PatternExplicitCall(p)
    \/ PatternGenerateOneCall
    \/ PatternFillStep
    \/ PatternFinish

SpecPattern == InitPattern /\ [][NextPattern]_vars

-----------------------------------------------------------------------------
(* Python's re module, as far as RegexGenerator uses it: re.compile and       *)
(* Pattern.fullmatch over literals, escapes, classes, ".", "^", "$", groups,  *)
(* alternation and the quantifiers ? * + {n} {n,m}                            *)

\* the printable characters of the model, in ASCII order
Ascii ==
    <<" ", "!", "$", "(", ")", "*", "+", ",", "-", ".", "1", "2", "?", "A", "B",
      "[", "\\", "]", "^", "a", "b", "c", "d", "e", "{", "|", "}">>

\* ord(c), up to an order-preserving renumbering
Ord(c) == CHOOSE i \in 1..Len(Ascii) : Ascii[i] = c

\* string.printable, string.ascii_letters, string.digits, string.punctuation
Printable == Range(Ascii)
Letters == UpperChars \cup LowerChars
Punctuation == Printable \ (Letters \cup DigitChars \cup Whitespace)

\* int(s) for a string of decimal digits
DigitValue(c) ==
    CASE c = "0" -> 0 [] c = "1" -> 1 [] c = "2" -> 2 [] c = "3" -> 3 [] c = "4" -> 4
      [] c = "5" -> 5 [] c = "6" -> 6 [] c = "7" -> 7 [] c = "8" -> 8 [] c = "9" -> 9
AllDigits == {"0", "1", "2", "3", "4", "5", "6", "7", "8", "9"}
RECURSIVE IntOf(_)
IntOf(t) == IF t = <<>> THEN 0 ELSE 10 * IntOf(SubSeq(t, 1, Len(t) - 1)) + DigitValue(t[Len(t)])
IsInt(t) == t # <<>> /\ \A i \in 1..Len(t) : t[i] \in AllDigits

\* str.find(ch, start): the least index from start on that holds ch, or -1
Find(t, ch, start) ==
    LET hits == {i \in start..(Len(t) - 1) : t[i + 1] = ch}
    IN IF hits = {} THEN -1 ELSE SetMin(hits)

\* the slice t[a:b] for 0 <= a
Slice(t, a, b) == SubSeq(t, a + 1, b)

\* str.split(sep)
RECURSIVE Split(_, _)
Split(t, sep) ==
    LET at == Find(t, sep, 0)
    IN IF at = -1 THEN <<t>>
       ELSE <<Slice(t, 0, at)>> \o Split(Slice(t, at + 1, Len(t)), sep)

\* the characters the escapes \d \w \s \D \W \S match
EscapeClass(e) ==
    CASE e = "d" -> DigitChars
      [] e = "w" -> Letters \cup DigitChars
      [] e = "s" -> Whitespace
      [] e = "D" -> Printable \ DigitChars
      [] e = "W" -> Printable \ (Letters \cup DigitChars)
      [] e = "S" -> Printable \ Whitespace
ClassEscapes == {"d", "w", "s", "D", "W", "S"}

\* nodes of a compiled pattern
ReFail == [ok |-> FALSE, node |-> <<>>, pos |-> 0]
ReOk(node, pos) == [ok |-> TRUE, node |-> node, pos |-> pos]
ReSet(chars) == [t |-> "set", chars |-> chars]
ReRep(node, min, max) == [t |-> "rep", of |-> node, min |-> min, max |-> max]

\* a quantifier at position p: ? * + {n} {n,} {,m} {n,m}; max = -1 is unbounded;
\* a brace that does not form a quantifier is not one
ReBrace(t, p) ==
    LET close == Find(t, "}", p)
        body == Slice(t, p + 1, close)
        comma == Find(body, ",", 0)
        lo == IF comma = -1 THEN body ELSE Slice(body, 0, comma)
        hi == IF comma = -1 THEN body ELSE Slice(body, comma + 1, Len(body))
        digits(x) == \A i \in 1..Len(x) : x[i] \in AllDigits
    IN IF close = -1 \/ body = <<>> \/ (comma = -1 /\ ~IsInt(body))
          \/ ~digits(lo) \/ ~digits(hi)
       THEN [found |-> FALSE, min |-> 1, max |-> 1, pos |-> p]
       ELSE [found |-> TRUE,
             min |-> IF lo = <<>> THEN 0 ELSE IntOf(lo),
             max |-> IF hi = <<>> THEN -1 ELSE IntOf(hi),
             pos |-> close + 1]

ReQuant(t, p) ==
    IF p >= Len(t) THEN [found |-> FALSE, min |-> 1, max |-> 1, pos |-> p]
    ELSE CASE t[p + 1] = "?" -> [found |-> TRUE, min |-> 0, max |-> 1, pos |-> p + 1]
           [] t[p + 1] = "*" -> [found |-> TRUE, min |-> 0, max |-> -1, pos |-> p + 1]
           [] t[p + 1] = "+" -> [found |-> TRUE, min |-> 1, max |-> -1, pos |-> p + 1]
           [] t[p + 1] = "{" -> ReBrace(t, p)
           [] OTHER -> [found |-> FALSE, min |-> 1, max |-> 1, pos |-> p]

\* the members of a class body [...], from position p up to the closing bracket
RECURSIVE ReClassItems(_, _, _, _)
ReClassItems(t, p, first, acc) ==
    IF p >= Len(t) THEN ReFail
    ELSE IF t[p + 1] = "]" /\ ~first THEN ReOk(acc, p + 1)
    ELSE IF t[p + 1] = "\\"
         THEN IF p + 1 >= Len(t) THEN ReFail
              ELSE IF t[p + 2] \in ClassEscapes
                   THEN ReClassItems(t, p + 2, FALSE, acc \cup EscapeClass(t[p + 2]))
                   ELSE ReClassItems(t, p + 2, FALSE, acc \cup {t[p + 2]})
    ELSE IF p + 2 < Len(t) /\ t[p + 2] = "-" /\ t[p + 3] # "]"
         THEN IF Ord(t[p + 1]) > Ord(t[p + 3]) THEN ReFail
              ELSE ReClassItems(t, p + 3, FALSE,
                      acc \cup {c \in Printable : Ord(t[p + 1]) <= Ord(c)
                                                  /\ Ord(c) <= Ord(t[p + 3])})
    ELSE ReClassItems(t, p + 1, FALSE, acc \cup {t[p + 1]})

ReClass(t, p) ==
    LET negated == p < Len(t) /\ t[p + 1] = "^"
        items == ReClassItems(t, IF negated THEN p + 1 ELSE p, TRUE, {})
    IN IF ~items.ok THEN ReFail
       ELSE ReOk(ReSet(IF negated THEN Printable \ items.node ELSE items.node), items.pos)


RECURSIVE ReAlt(_, _, _)
RECURSIVE ReCat(_, _, _)
RECURSIVE ReAtom(_, _)

\* a group whose body was parsed as inner: the closing parenthesis is due
ReGroup(t, inner) ==
    IF inner.ok /\ inner.pos < Len(t) /\ t[inner.pos + 1] = ")"
    THEN ReOk(inner.node, inner.pos + 1)
    ELSE ReFail

\* one atom at position p; a quantifier with nothing to repeat is an error
ReAtom(t, p) ==
    CASE t[p + 1] = "(" -> ReGroup(t, ReAlt(t, p + 1, <<>>))
      [] t[p + 1] = "[" -> ReClass(t, p + 1)
      [] t[p + 1] = "." -> ReOk([t |-> "any"], p + 1)
      [] t[p + 1] = "^" -> ReOk([t |-> "bol"], p + 1)
      [] t[p + 1] = "$" -> ReOk([t |-> "eol"], p + 1)
      [] t[p + 1] = "\\" ->
           IF p + 1 >= Len(t) THEN ReFail
           ELSE IF t[p + 2] \in ClassEscapes
                THEN ReOk(ReSet(EscapeClass(t[p + 2])), p + 2)
                ELSE ReOk(ReSet({t[p + 2]}), p + 2)
      [] t[p + 1] \in {"?", "*", "+"} -> ReFail
      [] t[p + 1] = "{" ->
           IF ReBrace(t, p).found THEN ReFail ELSE ReOk(ReSet({t[p + 1]}), p + 1)
      [] OTHER -> ReOk(ReSet({t[p + 1]}), p + 1)

\* the position behind the quantifier q, which may carry a lazy "?"
ReAfter(t, q) ==
    IF q.found /\ q.pos < Len(t) /\ t[q.pos + 1] = "?" THEN q.pos + 1 ELSE q.pos

\* the atom a with its quantifier q joins items; a second quantifier is an
\* error, and so is a quantifier on an anchor
ReQuantified(t, items, a, q) ==
    IF q.found /\ a.node.t \in {"bol", "eol"} THEN ReFail
    ELSE IF q.found /\ ReQuant(t, ReAfter(t, q)).found THEN ReFail
    ELSE IF q.found /\ q.max # -1 /\ q.max < q.min THEN ReFail
    ELSE ReCat(t, ReAfter(t, q), Append(items, ReRep(a.node, q.min, q.max)))

\* the atom a was parsed: its quantifier is due
ReItem(t, items, a) ==
    IF ~a.ok THEN ReFail ELSE ReQuantified(t, items, a, ReQuant(t, a.pos))

\* a sequence of quantified atoms up to "|", ")" or the end
ReCat(t, p, items) ==
    IF p >= Len(t) \/ t[p + 1] \in {"|", ")"}
    THEN ReOk([t |-> "cat", items |-> items], p)
    ELSE ReItem(t, items, ReAtom(t, p))

\* the branch b was parsed: another one follows a "|"
ReBranch(t, opts, b) ==
    IF ~b.ok THEN ReFail
    ELSE IF b.pos < Len(t) /\ t[b.pos + 1] = "|"
    THEN ReAlt(t, b.pos + 1, Append(opts, b.node))
    ELSE ReOk([t |-> "alt", opts |-> Append(opts, b.node)], b.pos)

\* branches separated by "|"
ReAlt(t, p, opts) == ReBranch(t, opts, ReCat(t, p, <<>>))

\* the outcome of re.compile for the parse r of all of t
Compiled(t, r) ==
    IF r.ok /\ r.pos = Len(t) THEN [ok |-> TRUE, node |-> r.node]
    ELSE [ok |-> FALSE, node |-> <<>>]

\* re.compile(t): the compiled pattern, or re.error
Compile(t) == Compiled(t, ReAlt(t, 0, <<>>))

RECURSIVE Ends(_, _, _)
RECURSIVE CatEnds(_, _, _)
RECURSIVE RepEnds(_, _, _, _, _)
RECURSIVE RepClosure(_, _, _, _)

\* the positions at which a match of node that starts at position i can end
Ends(node, s, i) ==
    CASE node.t = "set" -> IF i < Len(s) /\ s[i + 1] \in node.chars THEN {i + 1} ELSE {}
      [] node.t = "any" -> IF i < Len(s) /\ s[i + 1] # "\n" THEN {i + 1} ELSE {}
      [] node.t = "bol" -> IF i = 0 THEN {i} ELSE {}
      [] node.t = "eol" ->
           IF i = Len(s) \/ (i = Len(s) - 1 /\ s[Len(s)] = "\n") THEN {i} ELSE {}
      [] node.t = "cat" -> CatEnds(node.items, s, {i})
      [] node.t = "alt" -> UNION {Ends(node.opts[k], s, i) : k \in 1..Len(node.opts)}
      [] node.t = "rep" -> RepEnds(node.of, s, {i}, node.min, node.max)

CatEnds(items, s, from) ==
    IF items = <<>> \/ from = {} THEN from
    ELSE CatEnds(Tail(items), s, UNION {Ends(Head(items), s, i) : i \in from})

\* every position reachable from a position of from by further repetitions
RepClosure(node, s, from, acc) ==
    LET new == UNION {Ends(node, s, i) : i \in from} \ acc
    IN IF new = {} THEN acc ELSE RepClosure(node, s, new, acc \cup new)

\* lo repetitions are still due, hi more are allowed (-1: any number)
RepEnds(node, s, from, lo, hi) ==
    LET next == UNION {Ends(node, s, i) : i \in from}
    IN IF from = {} THEN {}
       ELSE IF lo > 0 THEN RepEnds(node, s, next, lo - 1, IF hi = -1 THEN -1 ELSE hi - 1)
       ELSE IF hi = -1 THEN RepClosure(node, s, from, from)
       ELSE IF hi = 0 THEN from
       ELSE from \cup RepEnds(node, s, next, 0, hi - 1)

\* Pattern.fullmatch(s) is not None
FullMatch(compiled, s) == Len(s) \in Ends(compiled.node, s, 0)

\* a variant of FullMatch: Pattern.match, which accepts a matching prefix
PrefixMatch(compiled, s) == Ends(compiled.node, s, 0) # {}

-----------------------------------------------------------------------------
(* edap/generators/regex_gen.py *)

\* _get_quantifier: "*" and "+" are generated with at most this many repetitions
StarMax == 10

\* CHAR_CLASSES, as sets: a character is drawn from them with an arbitrary draw
CharClasses(e) ==
    CASE e = "d" -> DigitChars
      [] e = "w" -> Letters \cup DigitChars
      [] e = "s" -> Whitespace
      [] e = "W" -> Punctuation \cup {" "}
      [] e = "D" -> Letters \cup Punctuation \cup {" "}
      [] e = "S" -> Letters \cup DigitChars \cup Punctuation
      [] e = "." -> Printable

\* the quantifier dict; err stands for the ValueError of int()
Quantifier(min, max, raw) == [min |-> min, max |-> max, raw |-> raw, err |-> FALSE]
NoQuantifier == Quantifier(1, 1, <<>>)
QuantifierError == [min |-> 1, max |-> 1, raw |-> <<>>, err |-> TRUE]

\* RegexGenerator._get_quantifier
GetQuantifier(pattern, pos) ==
    IF pos >= Len(pattern) THEN NoQuantifier
    ELSE LET char == pattern[pos + 1]
         IN CASE char = "?" -> Quantifier(0, 1, <<"?">>)
              [] char = "*" -> Quantifier(0, StarMax, <<"*">>)
              [] char = "+" -> Quantifier(1, StarMax, <<"+">>)
              [] char = "{" ->
                   LET end == Find(pattern, "}", pos)
                       quantifier_str == Slice(pattern, pos + 1, end)
                       raw == Slice(pattern, pos, end + 1)
                       parts == Split(quantifier_str, ",")
                   IN IF end = -1 THEN NoQuantifier
                      ELSE IF Find(quantifier_str, ",", 0) # -1
                      THEN IF (parts[1] # <<>> /\ ~IsInt(parts[1]))
                              \/ (parts[2] # <<>> /\ ~IsInt(parts[2]))
                           THEN QuantifierError
                           ELSE LET min_val == IF parts[1] # <<>> THEN IntOf(parts[1]) ELSE 0
                                IN Quantifier(min_val,
                                       IF parts[2] # <<>> THEN IntOf(parts[2])
                                       ELSE min_val + StarMax,
                                       raw)
                      ELSE IF ~IsInt(quantifier_str) THEN QuantifierError
                      ELSE Quantifier(IntOf(quantifier_str), IntOf(quantifier_str), raw)
              [] OTHER -> NoQuantifier

\* RegexGenerator._expand_char_class, before the negation
RECURSIVE ExpandItems(_, _, _)
ExpandItems(cc, i, chars) ==
    IF i >= Len(cc) THEN chars
    ELSE IF i + 2 < Len(cc) /\ cc[i + 2] = "-"
         THEN ExpandItems(cc, i + 3,
                  chars \cup {c \in Printable : Ord(cc[i + 1]) <= Ord(c)
                                                /\ Ord(c) <= Ord(cc[i + 3])})
    ELSE IF cc[i + 1] = "\\" /\ i + 1 < Len(cc)
         THEN IF cc[i + 2] \in ClassEscapes
              THEN ExpandItems(cc, i + 2, chars \cup CharClasses(cc[i + 2]))
              ELSE ExpandItems(cc, i + 2, chars \cup {cc[i + 2]})
    ELSE ExpandItems(cc, i + 1, chars \cup {cc[i + 1]})

\* RegexGenerator._expand_char_class
ExpandCharClass(class_content) ==
    LET negated == class_content # <<>> /\ class_content[1] = "^"
        expanded == ExpandItems(IF negated THEN Tail(class_content)
                                ELSE class_content, 0, {})
    IN IF negated THEN Printable \ expanded ELSE expanded

\* the instruction dicts of _parse_pattern
Instruction(type, char, chars, options, pattern, quantifier) ==
    [type |-> type, char |-> char, chars |-> chars, options |-> options,
     pattern |-> pattern, min |-> quantifier.min, max |-> quantifier.max]
Literal(char, q) == Instruction("literal", char, {}, <<>>, <<>>, q)
Class(chars, q) == Instruction("class", "", chars, <<>>, <<>>, q)
Alternation(options, q) == Instruction("alternation", "", {}, options, <<>>, q)
Group(pattern, q) == Instruction("group", "", {}, <<>>, pattern, q)

\* the scan of _parse_pattern for the end of a group: the index after the
\* parenthesis that closes it, or the end of the pattern
RECURSIVE GroupEnd(_, _, _)
GroupEnd(pattern, end, depth) ==
    IF ~(end < Len(pattern) /\ depth > 0) THEN end
    ELSE LET unescaped == end = 0 \/ pattern[end] # "\\"
         IN IF pattern[end + 1] = "(" /\ unescaped
            THEN GroupEnd(pattern, end + 1, depth + 1)
            ELSE IF pattern[end + 1] = ")" /\ unescaped
            THEN GroupEnd(pattern, end + 1, depth - 1)
            ELSE GroupEnd(pattern, end + 1, depth)


\* the outcome of _parse_pattern: the instruction list, or an exception
Parsed(instructions) == [err |-> FALSE, instructions |-> instructions]
ParseError == [err |-> TRUE, instructions |-> <<>>]

\* RegexGenerator._parse_pattern: the loop at index i
RECURSIVE ParseFrom(_, _, _)
ParseFrom(pattern, i, instructions) ==
    IF i >= Len(pattern) THEN Parsed(instructions)
    ELSE LET char == pattern[i + 1]
             \* an instruction with its quantifier q is appended and the loop
             \* goes on behind the element, which ends at index after, and q
             proceed(instr, q, after) ==
                 IF q.err THEN ParseError
                 ELSE ParseFrom(pattern, after + Len(q.raw), Append(instructions, instr))
         IN CASE char = "^" -> ParseFrom(pattern, i + 1, instructions)
              [] char = "$" -> ParseFrom(pattern, i + 1, instructions)
              [] char = "\\" ->
                   IF i + 1 < Len(pattern)
                   THEN IF pattern[i + 2] \in ClassEscapes
                        THEN LET q == GetQuantifier(pattern, i + 2)
                             IN proceed(Class(CharClasses(pattern[i + 2]), q), q, i + 2)
                        ELSE ParseFrom(pattern, i + 2,
                                 Append(instructions, Literal(pattern[i + 2], NoQuantifier)))
                   ELSE ParseFrom(pattern, i + 1, instructions)
              [] char = "[" ->
                   LET end == Find(pattern, "]", i)
                       q == GetQuantifier(pattern, end + 1)
                   IN IF end = -1 THEN ParseError
                      ELSE proceed(Class(ExpandCharClass(Slice(pattern, i + 1, end)), q),
                                   q, end + 1)
              [] char = "." ->
                   LET q == GetQuantifier(pattern, i + 1)
                   IN proceed(Class(CharClasses("."), q), q, i + 1)
              [] char \in {"?", "*", "+", "{"} -> ParseFrom(pattern, i + 1, instructions)
              [] char = "(" ->
                   LET end == GroupEnd(pattern, i + 1, 1)
                       group_content == Slice(pattern, i + 1, end - 1)
                       q == GetQuantifier(pattern, end)
                   IN IF Find(group_content, "|", 0) # -1
                      THEN proceed(Alternation(Split(group_content, "|"), q), q, end)
                      ELSE proceed(Group(group_content, q), q, end)
              [] char = "|" ->
                   Parsed(<<Alternation(<<Slice(pattern, 0, i),
                                          Slice(pattern, i + 1, Len(pattern))>>,
                                        NoQuantifier)>>)
              [] OTHER ->
                   LET q == GetQuantifier(pattern, i + 1)
                   IN proceed(Literal(char, q), q, i + 1)

\* RegexGenerator._parse_pattern
ParsePattern(pattern) == ParseFrom(pattern, 0, <<>>)

\* RegexGenerator.__init__ returns: re.compile and _parse_pattern did not raise
Constructs(pattern) == Compile(pattern).ok /\ ~ParsePattern(pattern).err

\* a variant of FilterByLearned: the class is returned as it is
FilterByNothing(chars, learned, use_learned_charset) == chars

\* RegexGenerator._filter_by_learned
FilterByLearned(chars, learned, use_learned_charset) ==
    IF ~use_learned_charset THEN chars
    ELSE IF chars \cap learned # {} THEN chars \cap learned ELSE chars

\* a variant of Validates: Pattern.match in place of Pattern.fullmatch
ValidatesPrefix(compiled, generated) == PrefixMatch(compiled, generated)

\* the test generate_one ends with: self._compiled.fullmatch(generated)
Validates(compiled, generated) == FullMatch(compiled, generated)

\* the end of generate_one: the candidate if it validates, else None
Validated(pattern, generated) ==
    IF Validates(Compile(pattern), generated) THEN AWord(generated) ELSE NoWord

\* the range the repetition count of an instruction is drawn from; an empty
\* range makes _random_choice raise
Counts(instr) == IF instr.min = instr.max THEN {instr.min} ELSE instr.min..instr.max

\* the outcomes of n appends, each append drawing from pieces: the strings
\* appended in all, or an exception if one of the appends may raise
RECURSIVE Repeated(_, _)
Repeated(pieces, n) ==
    IF n = 0 THEN {AWord(<<>>)}
    ELSE {IF x.kind = "raise" THEN x
          ELSE IF y.kind = "raise" THEN y
          ELSE AWord(x.word \o y.word) : x \in pieces, y \in Repeated(pieces, n - 1)}


RECURSIVE GenerateOneOutcomes(_, _, _)
RECURSIVE SubGenerate(_, _, _)
RECURSIVE OnePiece(_, _, _)
RECURSIVE InstructionPieces(_, _, _)
RECURSIVE Assembled(_, _, _)

\* a sub-generator is built on pattern and asked for one string: re.error or
\* ValueError from its constructor, else the outcomes of its generate_one
SubGenerate(pattern, learned, ul) ==
    IF ~Constructs(pattern)
    THEN {Raised(IF Compile(pattern).ok THEN "ValueError" ELSE "re.error")}
    ELSE GenerateOneOutcomes(pattern, learned, ul)

\* what one pass of the inner loop of generate_one may append for instr
OnePiece(instr, learned, ul) ==
    CASE instr.type = "literal" -> {AWord(<<instr.char>>)}
      [] instr.type = "class" ->
           LET chars == FilterByLearned(instr.chars, learned, ul)
           IN IF chars # {} THEN {AWord(<<c>>) : c \in chars} ELSE {AWord(<<>>)}
      [] instr.type = "alternation" ->
           UNION {{IF o.kind = "raise" THEN o
                   ELSE IF o.kind = "word" /\ o.word # <<>> THEN o
                   ELSE AWord(instr.options[k]) :
                       o \in SubGenerate(instr.options[k], learned, ul)} :
                  k \in 1..Len(instr.options)}
      [] instr.type = "group" ->
           {IF o.kind = "raise" THEN o
            ELSE IF o.kind = "word" /\ o.word # <<>> THEN o
            ELSE AWord(<<>>) : o \in SubGenerate(instr.pattern, learned, ul)}

\* what generate_one may append for instr in all: the count is drawn, then
\* that many passes are made
InstructionPieces(instr, learned, ul) ==
    IF Counts(instr) = {} THEN {Raised("ValueError")}
    ELSE UNION {Repeated(OnePiece(instr, learned, ul), n) : n \in Counts(instr)}

\* the strings generate_one may have assembled after the given instructions
Assembled(instructions, learned, ul) ==
    IF instructions = <<>> THEN {AWord(<<>>)}
    ELSE {IF x.kind = "raise" THEN x
          ELSE IF y.kind = "raise" THEN y
          ELSE AWord(x.word \o y.word) :
              x \in InstructionPieces(Head(instructions), learned, ul),
              y \in Assembled(Tail(instructions), learned, ul)}

\* RegexGenerator(analysis, pattern).generate_one(): every outcome
GenerateOneOutcomes(pattern, learned, ul) ==
    {IF c.kind = "raise" THEN c ELSE Validated(pattern, c.word) :
        c \in Assembled(ParsePattern(pattern).instructions, learned, ul)}

\* the patterns the generators are built on
RegexPatterns ==
    {<<"a", "b">>,
     <<"a", "?", "b">>,
     <<"[", "a", "b", "]", "{", "2", "}">>,
     <<"(", "a", "|", "b", ")", "c">>,
     <<"(", "a", "?", "|", "b", ")">>,
     <<"\\", "d", "[", "a", "-", "c", "]">>,
     <<"\\", ".", "{", "2", "}">>,
     <<"a", "|", "b">>,
     <<"^", "a", "+", "$">>,
     <<"(", "a", "b", ")", "?">>,
     <<".">>,
     <<"(", "a", "(", "b", "|", "c", ")", ")">>,
     <<"[", "^", "a", "]">>,
     <<"a", "{", "1", ",", "2", "}">>,
     <<"a", "$", "b">>}

\* the corpora the analysis is made of; only its charset is read
RegexCorpora ==
    {<<>>, <<<<"a", "b">>>>, <<<<"a", "1">>, <<"c", "2">>>>}

\* RegexGenerator(analysis, pattern, use_learned_charset = ul)
NewRegexGenerator(pattern, ul) ==
    [pattern |-> pattern,
     use_learned_charset |-> ul,
     compiled |-> Compile(pattern),
     parsed |-> ParsePattern(pattern).instructions,
     pc |-> "idle",
     calls |-> 0,
     next |-> 0,
     assembled |-> <<>>,
     out |-> NoWord]

InitRegex ==
    /\ mode = "regex"
    /\ window = <<1, 256>>
    /\ \E corpus \in RegexCorpora :
          /\ consumed = corpus
          /\ result = <<AnalyzeWords(corpus, window)>>
    /\ \E pattern \in {p \in RegexPatterns : Constructs(p)}, ul \in BOOLEAN :
          gen = NewRegexGenerator(pattern, ul)
    /\ an = ResetState
    /\ ls = NewLengthStats(0)
    /\ lsCalls = <<>>
    /\ twin = <<>>
    /\ pg = <<>>

\* generate_one() is entered: result = []
RegexGenerateOne ==
    /\ gen.pc = "idle"
    /\ gen.calls < MaxCalls
    /\ gen' = [gen EXCEPT !.pc = "run", !.calls = @ + 1, !.next = 0,
                          !.assembled = <<>>, !.out = NoWord]
    /\ UNCHANGED <<mode, window, consumed, an, result, ls, lsCalls, twin, pg>>

\* one pass of the outer loop: the next instruction appends its strings, or an
\* exception leaves generate_one
RegexInstruction ==
    /\ gen.pc = "run"
    /\ gen.next < Len(gen.parsed)
    /\ \E piece \in InstructionPieces(gen.parsed[gen.next + 1], result[1].charset,
                                      gen.use_learned_charset) :
          gen' = IF piece.kind = "raise"
                 THEN [gen EXCEPT !.pc = "idle", !.out = piece]
                 ELSE [gen EXCEPT !.next = @ + 1, !.assembled = @ \o piece.word]
    /\ UNCHANGED <<mode, window, consumed, an, result, ls, lsCalls, twin, pg>>

\* the instructions are used up: the candidate is validated and returned, or None
RegexValidate ==
    /\ gen.pc = "run"
    /\ gen.next = Len(gen.parsed)
    /\ gen' = [gen EXCEPT !.pc = "idle", !.out = Validated(gen.pattern, gen.assembled)]
    /\ UNCHANGED <<mode, window, consumed, an, result, ls, lsCalls, twin, pg>>

NextRegex ==
    \/ RegexGenerateOne
    \/ RegexInstruction
    \/ RegexValidate

SpecRegex == InitRegex /\ [][NextRegex]_vars

-----------------------------------------------------------------------------
(* edap/generators/markov.py *)

\* the sentinels MarkovGenerator.START and MarkovGenerator.END
START == "x00"
END == "x01"

\* the cap of generate_one on an analysis without lengths
DefaultMaxLength == 20

\* c * n for a character c
Times(c, n) == [i \in 1..n |-> c]

\* t[-order:]; with order 0 the slice [-0:] is the whole of t
LastChars(t, order) ==
    IF order = 0 \/ Len(t) <= order THEN t ELSE SubSeq(t, Len(t) - order + 1, Len(t))

\* counter[k] += n
CounterAdd(c, k, n) ==
    IF \E i \in 1..Len(c) : c[i][1] = k
    THEN [i \in 1..Len(c) |-> IF c[i][1] = k THEN <<k, c[i][2] + n>> ELSE c[i]]
    ELSE Append(c, <<k, n>>)

\* _transitions[context][next] for every pair of pairs, each += n; the nested
\* dict is kept flat, its keys are the pairs <<context, next>>
RECURSIVE AddTransitions(_, _)
AddTransitions(tr, adds) ==
    IF adds = <<>> THEN tr
    ELSE AddTransitions(CounterAdd(tr, Head(adds)[1], Head(adds)[2]), Tail(adds))

\* "context in self._transitions"
KnownContext(tr, context) == \E i \in 1..Len(tr) : tr[i][1][1] = context

\* dict(self._transitions[context]): next character -> count
TransitionsFrom(tr, context) ==
    LET hits == SelectSeq(tr, LAMBDA e : e[1][1] = context)
    IN [i \in 1..Len(hits) |-> <<hits[i][1][2], hits[i][2]>>]

\* _build_transitions, first loop: one count for every co-occurrence entry of
\* adjacent positions
AdjacentTransitions(res) ==
    LET adjacent == SetToSeq({e \in res.cooccurrence : e[3] = e[2] + 1})
    IN [i \in 1..Len(adjacent) |-> <<<<(<<adjacent[i][1]>>), adjacent[i][4]>>, 1>>]

\* _build_transitions, second and third loop: for every length, the character
\* counts of position 0 follow START, those of the last position precede END
RECURSIVE EdgeTransitions(_, _, _, _)
EdgeTransitions(res, keys, last, acc) ==
    IF keys = <<>> THEN acc
    ELSE LET lst == res.length_stats[Head(keys)]
             pos == IF last THEN Head(keys) - 1 ELSE 0
             cc == IF pos \in DOMAIN lst.positions
                   THEN lst.positions[pos].char_counts ELSE <<>>
         IN EdgeTransitions(res, Tail(keys), last,
                acc \o [i \in 1..Len(cc) |->
                          IF last THEN <<<<(<<cc[i][1]>>), END>>, cc[i][2]>>
                          ELSE <<<<(<<START>>), cc[i][1]>>, cc[i][2]>>])

\* MarkovGenerator._build_transitions
BuildTransitions(res) ==
    AddTransitions(EmptyCounter,
        AdjacentTransitions(res)
        \o EdgeTransitions(res, res.length_keys, FALSE, <<>>)
        \o EdgeTransitions(res, res.length_keys, TRUE, <<>>))

\* START * order + word + END
Padded(word, order) == Times(START, order) \o word \o <<END>>

\* the (context, next character) pairs train_on_words records from one word
WordTransitions(word, order) ==
    LET padded == Padded(word, order)
    IN [i \in 1..(Len(padded) - order) |->
          <<<<SubSeq(padded, i, i + order - 1), padded[i + order]>>, 1>>]

\* the loop of train_on_words
RECURSIVE TrainOnWords(_, _, _)
TrainOnWords(tr, words, order) ==
    IF words = <<>> THEN tr
    ELSE TrainOnWords(AddTransitions(tr, WordTransitions(Head(words), order)),
                      Tail(words), order)

\* generate_one: max(length_stats.keys()) * 2, or 20
\* a variant of MarkovMaxLength: three times the longest observed length
MarkovMaxLengthTriple(res) ==
    IF DOMAIN res.length_stats # {} THEN SetMax(DOMAIN res.length_stats) * 3
    ELSE DefaultMaxLength

MarkovMaxLength(res) ==
    IF DOMAIN res.length_stats # {} THEN SetMax(DOMAIN res.length_stats) * 2
    ELSE DefaultMaxLength

\* the shorter contexts current[i:], i = 1 .. len(current) - 1, that are known
ShorterKnown(tr, current) ==
    {i \in 1..(Len(current) - 1) : KnownContext(tr, SubSeq(current, i + 1, Len(current)))}

\* a variant of NextContext: one character less is kept
NextContextDropsOne(current, next_char, order) ==
    LastChars(current \o <<next_char>>, order - 1)

\* (current + next_char)[-self.order:]
NextContext(current, next_char, order) == LastChars(current \o <<next_char>>, order)


\* MarkovGenerator(analysis, order = order), built without a seed
NewMarkovGenerator(res, order) ==
    [order |-> order,
     transitions |-> BuildTransitions(res),
     trained |-> FALSE,
     words |-> <<>>,
     pc |-> "idle",
     calls |-> 0,
     current |-> <<>>,
     result |-> <<>>,
     returned |-> FALSE,
     out |-> NoWord]

\* a variant of MarkovReturn: "".join(result) is returned as it is
MarkovReturnJoined(g) ==
    [g EXCEPT !.pc = "idle", !.returned = TRUE, !.out = AWord(g.result)]

\* generate_one returns: "".join(result) if result else None
MarkovReturn(g) ==
    [g EXCEPT !.pc = "idle", !.returned = TRUE,
              !.out = IF g.result # <<>> THEN AWord(g.result) ELSE NoWord]

\* the end of one pass of the loop, the context being current: the next
\* character is drawn by weight; END or no transition leaves the loop
MarkovDraw(g, current, raw) ==
    LET transitions == TransitionsFrom(g.transitions, current)
    IN IF transitions = <<>> THEN MarkovReturn(g)
       ELSE IF WeightedChoice(transitions, raw) = END THEN MarkovReturn(g)
       ELSE [g EXCEPT !.result = Append(@, WeightedChoice(transitions, raw)),
                      !.current = NextContext(current,
                                      WeightedChoice(transitions, raw), g.order)]

\* one pass of the loop of generate_one
MarkovPass(g, res, raw) ==
    IF KnownContext(g.transitions, g.current) THEN MarkovDraw(g, g.current, raw)
    ELSE IF ShorterKnown(g.transitions, g.current) # {}
    THEN MarkovDraw(g, SubSeq(g.current,
                              SetMin(ShorterKnown(g.transitions, g.current)) + 1,
                              Len(g.current)), raw)
    ELSE IF res.charset # {}
    THEN [g EXCEPT !.result = Append(@, RandomChoice(SetToSeq(res.charset), raw)),
                   !.current = NextContext(g.current,
                                   RandomChoice(SetToSeq(res.charset), raw), g.order)]
    ELSE MarkovReturn(g)

\* the analysed corpora, the orders and the word lists of train_on_words
MarkovCorpora ==
    {<<>>, <<<<"a", "b">>, <<"b", "a">>>>, <<<<"d">>, <<"a", "e">>>>}
MarkovOrders == {1, 2}
MarkovTrainings ==
    {<<>>,
     <<<<>>>>,
     <<<<"a", "b">>, <<"b", "a">>>>,
     <<<<"a", "b", "c">>, <<"e", "b", "c", "d">>>>,
     <<<<"a">>, <<"a", "b">>, <<"c", "b">>>>}

InitMarkov ==
    /\ mode = "markov"
    /\ window = <<1, 256>>
    /\ \E corpus \in MarkovCorpora :
          /\ consumed = corpus
          /\ result = <<AnalyzeWords(corpus, window)>>
          /\ \E order \in MarkovOrders :
                gen = NewMarkovGenerator(AnalyzeWords(corpus, window), order)
    /\ an = ResetState
    /\ ls = NewLengthStats(0)
    /\ lsCalls = <<>>
    /\ twin = <<>>
    /\ pg = <<>>

\* the width of a raw draw that reaches every item of every weighted choice and
\* every character of the charset
MarkovDrawRange ==
    SetMax({CounterSum(gen.transitions), Cardinality(result[1].charset), 1})

\* train_on_words(words): the table is cleared and rebuilt from the words
MarkovTrain(words) ==
    /\ gen.pc = "idle"
    /\ gen.calls < MaxCalls
    /\ gen' = [gen EXCEPT !.transitions = TrainOnWords(EmptyCounter, words, gen.order),
                          !.trained = TRUE, !.words = words, !.calls = @ + 1,
                          !.returned = FALSE]
    /\ UNCHANGED <<mode, window, consumed, an, result, ls, lsCalls, twin, pg>>

\* generate_one() is entered: None at once on an empty table
MarkovGenerateOne ==
    /\ gen.pc = "idle"
    /\ gen.calls < MaxCalls
    /\ gen' = IF gen.transitions = <<>>
              THEN MarkovReturn([gen EXCEPT !.calls = @ + 1, !.result = <<>>])
              ELSE [gen EXCEPT !.pc = "loop", !.calls = @ + 1, !.result = <<>>,
                               !.returned = FALSE, !.out = NoWord,
                               !.current = Times(START, gen.order)]
    /\ UNCHANGED <<mode, window, consumed, an, result, ls, lsCalls, twin, pg>>

\* the loop of generate_one: one pass, or the cap is reached and the call returns
MarkovLoop ==
    /\ gen.pc = "loop"
    /\ IF Len(gen.result) < MarkovMaxLength(result[1])
       THEN \E raw \in 0..(MarkovDrawRange - 1) : gen' = MarkovPass(gen, result[1], raw)
       ELSE gen' = MarkovReturn(gen)
    /\ UNCHANGED <<mode, window, consumed, an, result, ls, lsCalls, twin, pg>>

NextMarkov ==
    \/ \E words \in MarkovTrainings : MarkovTrain(words)
    \/ MarkovGenerateOne
    \/ MarkovLoop

SpecMarkov == InitMarkov /\ [][NextMarkov]_vars

\* the same generator built with any order, 0 included, the interpreter going
\* on with a generate_one that was entered
InitMarkovAnyOrder ==
    /\ mode = "markov"
    /\ window = <<1, 256>>
    /\ \E corpus \in MarkovCorpora :
          /\ consumed = corpus
          /\ result = <<AnalyzeWords(corpus, window)>>
          /\ \E order \in MarkovOrders \cup {0} :
                gen = NewMarkovGenerator(AnalyzeWords(corpus, window), order)
    /\ an = ResetState
    /\ ls = NewLengthStats(0)
    /\ lsCalls = <<>>
    /\ twin = <<>>
    /\ pg = <<>>

SpecMarkovFair == InitMarkovAnyOrder /\ [][NextMarkov]_vars /\ WF_vars(MarkovLoop)

-----------------------------------------------------------------------------
(* BaseGenerator.calculate_weight (edap/generators/base.py) *)

\* a variant of CalculateWeight: a position scores one when its character was
\* observed there, however often
CalculateWeightPresence(res, word) ==
    IF Len(word) \notin DOMAIN res.length_stats THEN 0
    ELSE SeqSum([k \in 1..Len(word) |->
            IF k - 1 \in DOMAIN res.length_stats[Len(word)].positions
               /\ CounterGet(res.length_stats[Len(word)].positions[k - 1].char_counts,
                             word[k]) > 0
            THEN 1 ELSE 0])

\* calculate_weight(word)
CalculateWeight(res, word) ==
    IF Len(word) \notin DOMAIN res.length_stats THEN 0
    ELSE SeqSum([k \in 1..Len(word) |->
            IF k - 1 \in DOMAIN res.length_stats[Len(word)].positions
            THEN CounterGet(res.length_stats[Len(word)].positions[k - 1].char_counts,
                            word[k])
            ELSE 0])

\* the longest word whose weight is asked for
MaxWeightLen == 3

\* the analysed corpora and the words whose weight is asked for
WeightCorpora ==
    {<<>>,
     <<<<"a">>>>,
     <<<<"a", "b">>, <<"a", "b">>, <<"c", "b">>>>,
     <<<<"a", "b", " ">>, <<"b">>, <<"a", "b", "c">>>>,
     <<<<"b", "a">>, <<" ">>, <<"a", "b">>, <<"a", "a">>>>}
WeightWords == UNION {[1..n -> {"a", "b"}] : n \in 0..MaxWeightLen}

\* no weight was asked for yet
NoWeight == [called |-> FALSE, word |-> <<>>, weight |-> 0]

InitWeight ==
    /\ mode = "weight"
    /\ window \in {<<1, 256>>, <<2, 3>>}
    /\ consumed \in WeightCorpora
    /\ result = <<AnalyzeWords(consumed, window)>>
    /\ gen = [last |-> NoWeight, previous |-> NoWeight]
    /\ an = ResetState
    /\ ls = NewLengthStats(0)
    /\ lsCalls = <<>>
    /\ twin = <<>>
    /\ pg = <<>>

\* calculate_weight(word) on a generator built on the analysis
WeightCall(word) ==
    /\ gen' = [last |-> [called |-> TRUE, word |-> word,
                         weight |-> CalculateWeight(result[1], word)],
               previous |-> gen.last]
    /\ UNCHANGED <<mode, window, consumed, an, result, ls, lsCalls, twin, pg>>

NextWeight == \E word \in WeightWords : WeightCall(word)

SpecWeight == InitWeight /\ [][NextWeight]_vars

-----------------------------------------------------------------------------
(* An AnalysisResult and the objects it shares (analyzer.py, _build_result) *)

\* _build_result copies the outer containers only: the LengthStats objects and
\* the inner dicts of the co-occurrence matrix of a result are the objects the
\* analyzer filled. The objects are told apart by the _reset that created
\* them (epoch); those of the current epoch are the fields of an, those of
\* earlier epochs are in pg.retired. pg.extra[e] holds the key paths <<c, i>>
\* and <<c, i, j>> that were inserted into the inner dicts of epoch e without
\* a member.

\* the LengthStats objects and inner co-occurrence dicts created in epoch e
ObjectsOf(e) ==
    IF e = pg.epoch THEN [length_stats |-> an.length_stats, cooc |-> an.cooc]
    ELSE pg.retired[e]

\* what _build_result returns: the scalars, the copies of the outer containers,
\* and references to the shared objects (their keys and their epoch)
NewResult(a, e) ==
    [total_words |-> BuildResult(a).total_words,
     unique_words |-> BuildResult(a).unique_words,
     charset |-> BuildResult(a).charset,
     discarded_charset |-> BuildResult(a).discarded_charset,
     length_keys |-> BuildResult(a).length_keys,
     global_char_frequency |-> BuildResult(a).global_char_frequency,
     global_type_frequency |-> BuildResult(a).global_type_frequency,
     min_length |-> BuildResult(a).min_length,
     max_length |-> BuildResult(a).max_length,
     cooc_keys |-> {x[1] : x \in a.cooc},
     epoch |-> e]

\* the fields of the result r as a reader sees them, objects being the shared
\* objects of its epoch and empty the key paths inserted without a member
Snapshot(r, objects, empty) ==
    [total_words |-> r.total_words,
     unique_words |-> r.unique_words,
     charset |-> r.charset,
     discarded_charset |-> r.discarded_charset,
     length_keys |-> r.length_keys,
     length_stats |-> [k \in Range(r.length_keys) |-> objects.length_stats[k]],
     global_char_frequency |-> r.global_char_frequency,
     global_type_frequency |-> r.global_type_frequency,
     min_length |-> r.min_length,
     max_length |-> r.max_length,
     cooccurrence |-> {x \in objects.cooc : x[1] \in r.cooc_keys},
     cooc_empty |-> {x \in empty : x[1] \in r.cooc_keys}]

\* the fields of the result r as a reader sees them now
Deref(r) == Snapshot(r, ObjectsOf(r.epoch), pg.extra[r.epoch])

\* the key paths of the inner dicts of the result r
CoocPaths(r) ==
    {<<x[1], x[2]>> : x \in Deref(r).cooccurrence}
        \cup {<<x[1], x[2], x[3]>> : x \in Deref(r).cooccurrence}
        \cup Deref(r).cooc_empty

\* defaultdict.__getitem__: a missing key is inserted with the default value
DefaultSubscript(paths, path) == paths \cup {path}

\* a variant of CoocLookup: the inner dicts are subscripted without the tests
\* "pos in cooc[char]" and "target_pos in cooc[char][pos]"
CoocLookupUnguarded(paths, keys, c, i, j) ==
    IF c \notin keys THEN paths
    ELSE DefaultSubscript(DefaultSubscript(paths, <<c, i>>), <<c, i, j>>)

\* the key paths after "char in cooc and pos in cooc[char] and target_pos in
\* cooc[char][pos]" and, when it holds, cooc[char][pos][target_pos]
CoocLookup(paths, keys, c, i, j) ==
    IF c \notin keys THEN paths
    ELSE IF <<c, i>> \notin paths THEN paths
    ELSE IF <<c, i, j>> \notin DefaultSubscript(paths, <<c, i>>)
    THEN DefaultSubscript(paths, <<c, i>>)
    ELSE DefaultSubscript(DefaultSubscript(paths, <<c, i>>), <<c, i, j>>)

\* the loop of _find_compatible_chars over the placed characters, from pos on
RECURSIVE CoocLookups(_, _, _, _, _)
CoocLookups(paths, keys, current, pos, target_pos) ==
    IF pos >= Len(current) THEN paths
    ELSE CoocLookups(IF current[pos + 1] = "" THEN paths
                     ELSE CoocLookup(paths, keys, current[pos + 1], pos, target_pos),
                     keys, current, pos + 1, target_pos)

\* a variant of FindCompatibleChars: the placed characters do not restrict
FindCandidateChars(current, target_pos, lst, cooc) ==
    IF target_pos \notin DOMAIN lst.positions THEN {}
    ELSE Range(CounterKeys(lst.positions[target_pos].char_counts))

\* SmartGenerator._find_compatible_chars: the candidates it returns
FindCompatibleChars(current, target_pos, lst, cooc) ==
    IF target_pos \notin DOMAIN lst.positions THEN {}
    ELSE {c \in Range(CounterKeys(lst.positions[target_pos].char_counts)) :
            \A p \in Restricting(current, target_pos, cooc) :
                c \in CoocGet(cooc, current[p + 1], p, target_pos)}

\* PatternAnalyzer.get_word_analysis: char_weights
CharWeights(a, word) ==
    IF Len(word) \notin DOMAIN a.length_stats THEN <<>>
    ELSE [k \in 1..Len(word) |->
            CounterGet(a.length_stats[Len(word)].positions[k - 1].char_counts, word[k])]

\* the corpora analysed, the words asked about and the partly filled results
FrozenCorpora ==
    {<<>>, <<<<"a", "b">>>>, <<<<"a", "b">>, <<"b", "a">>>>,
     <<<<"a">>, <<"a", "b">>, <<"c", "b">>>>}
FrozenWords == {<<>>, <<"a">>, <<"z">>, <<"a", "b">>, <<"z", "a">>, <<"a", "b", "c">>}
FrozenCurrent == [1..2 -> {"", "a", "z"}]

InitFrozen ==
    /\ mode = "frozen"
    /\ window = <<1, 256>>
    /\ consumed = <<>>
    /\ an = ResetState
    /\ result = <<>>
    /\ twin = <<>>
    /\ pg = [epoch |-> 1, retired |-> <<>>, extra |-> <<{}>>]
    /\ gen = [op |-> "none", out |-> <<>>]
    /\ ls = NewLengthStats(0)
    /\ lsCalls = <<>>

\* analyze_words returns: fresh is the analyzer state after _reset and the
\* processing of words; twin keeps what the result held at that moment
FrozenReturn(fresh, words) ==
    /\ consumed' = words
    /\ an' = fresh
    /\ pg' = [epoch |-> pg.epoch + 1,
              retired |-> Append(pg.retired,
                                 [length_stats |-> an.length_stats, cooc |-> an.cooc]),
              extra |-> Append(pg.extra, {})]
    /\ result' = Append(result, NewResult(fresh, pg.epoch + 1))
    /\ twin' = Append(twin, Snapshot(NewResult(fresh, pg.epoch + 1),
                                     [length_stats |-> fresh.length_stats,
                                      cooc |-> fresh.cooc], {}))
    /\ gen' = [op |-> "analyze_words", out |-> <<>>]
    /\ UNCHANGED <<mode, window, ls, lsCalls>>

\* analyze_words(words) on the analyzer: _reset binds new objects, the words
\* are processed, the result is built
FrozenAnalyze(words) ==
    /\ Len(result) < MaxCalls
    /\ FrozenReturn(AnalyzeStream(ResetState, words, window), words)

\* get_word_analysis(word) on the analyzer
FrozenGetWordAnalysis(word) ==
    /\ gen' = [op |-> "get_word_analysis", out |-> CharWeights(an, word)]
    /\ UNCHANGED <<mode, window, consumed, an, result, ls, lsCalls, twin, pg>>

\* a generator on result k looks for the characters compatible with current at
\* target_pos, as generate_one and generate_one_strict do for every position
FrozenFindCompatible(k, current, target_pos) ==
    /\ Len(current) \in DOMAIN Deref(result[k]).length_stats
    /\ gen' = [op |-> "find_compatible",
               out |-> <<FindCompatibleChars(current, target_pos,
                             Deref(result[k]).length_stats[Len(current)],
                             Deref(result[k]).cooccurrence)>>]
    /\ pg' = [pg EXCEPT !.extra[result[k].epoch] =
                  @ \cup (CoocLookups(CoocPaths(result[k]), result[k].cooc_keys,
                                      current, 0, target_pos)
                          \ CoocPaths(result[k]))]
    /\ UNCHANGED <<mode, window, consumed, an, result, ls, lsCalls, twin>>

\* calculate_weight(word) of a generator on result k
FrozenCalculateWeight(k, word) ==
    /\ gen' = [op |-> "calculate_weight",
               out |-> <<CalculateWeight(Deref(result[k]), word)>>]
    /\ UNCHANGED <<mode, window, consumed, an, result, ls, lsCalls, twin, pg>>

\* MarkovGenerator(result k, order): the table _build_transitions fills
FrozenNewMarkov(k, order) ==
    /\ gen' = [op |-> "MarkovGenerator", out |-> BuildTransitions(Deref(result[k]))]
    /\ UNCHANGED <<mode, window, consumed, an, result, ls, lsCalls, twin, pg>>

\* train_on_words(words) of a MarkovGenerator: its own table is rebuilt
FrozenTrain(words, order) ==
    /\ result # <<>>
    /\ gen' = [op |-> "train_on_words", out |-> TrainOnWords(EmptyCounter, words, order)]
    /\ UNCHANGED <<mode, window, consumed, an, result, ls, lsCalls, twin, pg>>

\* RandomGenerator.generate_one on result k with the raw draws d
FrozenGenerateOne(k, d) ==
    /\ gen' = [op |-> "generate_one",
               out |-> RandomGenerateOne(Deref(result[k]),
                                         SetToSeq(Deref(result[k]).charset),
                                         TRUE, d).out]
    /\ UNCHANGED <<mode, window, consumed, an, result, ls, lsCalls, twin, pg>>

NextFrozen ==
    \/ \E words \in FrozenCorpora : FrozenAnalyze(words)
    \/ \E word \in FrozenWords : FrozenGetWordAnalysis(word)
    \/ \E k \in 1..Len(result), current \in FrozenCurrent, target_pos \in -1..2 :
          FrozenFindCompatible(k, current, target_pos)
    \/ \E k \in 1..Len(result), word \in FrozenWords : FrozenCalculateWeight(k, word)
    \/ \E k \in 1..Len(result), order \in MarkovOrders : FrozenNewMarkov(k, order)
    \/ \E words \in MarkovTrainings, order \in MarkovOrders : FrozenTrain(words, order)
    \/ \E k \in 1..Len(result), d \in [1..3 -> 0..1] : FrozenGenerateOne(k, d)

SpecFrozen == InitFrozen /\ [][NextFrozen]_vars

-----------------------------------------------------------------------------
\* SmartGenerator (generators/smart.py)

\* list(s) of a set s: its elements in the order the set iterates
ListOf(S) == CHOOSE f \in Orders(S) : TRUE

\* a SmartGenerator between and inside calls: how tells from where the last
\* character came ("position": the weights of its position, "compatible": the
\* compatible set, "global": the corpus charset), pos where it went and
\* before what the result held when it was chosen
NewSmartGenerator(max_retries) ==
    [pc |-> "idle", kind |-> "none", length |-> 0, positions |-> <<>>,
     result |-> <<>>, before |-> <<>>, pos |-> -1, how |-> "none",
     retries |-> 0, max_retries |-> max_retries, out |-> NoWord]

\* a call returns out
SmartReturn(g, out) == [g EXCEPT !.pc = "idle", !.out = out]

\* result[pos] = char, the position leaves the list
SmartPlace(g, pos, char, how) ==
    [g EXCEPT !.before = g.result, !.result[pos + 1] = char,
              !.positions = Remove(@, pos), !.pos = pos, !.how = how,
              !.retries = 0]

\* generate_one: the character of the start position, <<char, how>>
SmartStartChar(res, lst, start_pos, raw) ==
    IF lst.count > 1 /\ start_pos \in DOMAIN lst.positions
                     /\ Len(lst.positions[start_pos].char_counts) > 1
    THEN <<WeightedChoice(lst.positions[start_pos].char_counts, raw), "position">>
    ELSE <<RandomChoice(ListOf(res.charset), raw), "global">>

\* SmartGenerator.generate_one up to its loop
SmartGenerateOneStart(g, res, d) ==
    LET lw == LengthWeights(res)
    IN IF lw = <<>>
       THEN SmartReturn(g, Raised("ValueError: Cannot choose from empty weights"))
       ELSE LET length == WeightedChoice(lw, d[1])
            IN IF length \notin DOMAIN res.length_stats THEN SmartReturn(g, NoWord)
               ELSE LET positions == [i \in 1..length |-> i - 1]
                        start_pos == RandomChoice(positions, d[2])
                        start == SmartStartChar(res, res.length_stats[length],
                                                start_pos, d[3])
                    IN SmartPlace([g EXCEPT !.pc = "fill", !.length = length,
                                            !.positions = positions,
                                            !.result = [i \in 1..length |-> ""]],
                                  start_pos, start[1], start[2])

\* the compatible set of one iteration of the loop of generate_one, d1
\* picking the position
SmartCompatible(g, res, d1) ==
    IF res.length_stats[g.length].count > 1
    THEN FindCompatibleChars(g.result, RandomChoice(g.positions, d1),
                             res.length_stats[g.length], res.cooccurrence)
    ELSE {}

\* one iteration of the loop of generate_one: d1 picks the position, d2 the
\* character, compatible is what _find_compatible_chars returned
SmartFill(g, res, d1, d2, compatible) ==
    LET lst == res.length_stats[g.length]
        has_variety == lst.count > 1
        pos == RandomChoice(g.positions, d1)
    IN IF Cardinality(compatible) > 1
       THEN SmartPlace(g, pos,
                WeightedChoice(TypedWeights(lst.positions[pos], ListOf(compatible)),
                               d2),
                "compatible")
       ELSE IF has_variety /\ pos \in DOMAIN lst.positions
                           /\ Len(lst.positions[pos].char_counts) > 1
       THEN SmartPlace(g, pos, WeightedChoice(lst.positions[pos].char_counts, d2),
                       "position")
       ELSE SmartPlace(g, pos, RandomChoice(ListOf(res.charset), d2), "global")

\* SmartGenerator.generate_one_strict up to its loop
SmartStrictStart(g, res, d) ==
    LET lw == LengthWeights(res)
    IN IF lw = <<>>
       THEN SmartReturn(g, Raised("ValueError: Cannot choose from empty weights"))
       ELSE LET length == WeightedChoice(lw, d[1])
            IN IF length \notin DOMAIN res.length_stats THEN SmartReturn(g, NoWord)
               ELSE LET lst == res.length_stats[length]
                        positions == [i \in 1..length |-> i - 1]
                        start_pos == RandomChoice(positions, d[2])
                    IN IF start_pos \notin DOMAIN lst.positions
                       THEN SmartReturn(g, NoWord)
                       ELSE SmartPlace(
                                [g EXCEPT !.pc = "strict", !.length = length,
                                          !.positions = positions,
                                          !.result = [i \in 1..length |-> ""]],
                                start_pos,
                                WeightedChoice(lst.positions[start_pos].char_counts,
                                               d[3]),
                                "position")

\* the loop condition of generate_one_strict
StrictContinues(g) ==
    g.positions # <<>> /\ g.retries < g.max_retries * g.length

\* the compatible set of one iteration of the loop of generate_one_strict
StrictCompatible(g, res, d1) ==
    FindCompatibleChars(g.result, RandomChoice(g.positions, d1),
                        res.length_stats[g.length], res.cooccurrence)

\* one iteration of the loop of generate_one_strict
SmartStrictFill(g, res, d1, d2, compatible) ==
    LET lst == res.length_stats[g.length]
        pos == RandomChoice(g.positions, d1)
    IN IF compatible = {}
       THEN [g EXCEPT !.retries = @ + 1]
       ELSE SmartPlace(g, pos,
                WeightedChoice(TypedWeights(lst.positions[pos], ListOf(compatible)),
                               d2),
                "compatible")

\* the corpora a SmartGenerator is built on: none, one word, a position with
\* one character, two lengths, and words whose pairs agree while no fourth
\* character agrees with all three
SmartCorpora ==
    {<<>>,
     <<<<"a", "b">>>>,
     <<<<"x", "a">>, <<"x", "b">>>>,
     <<<<"a">>, <<"a", "b">>, <<"c", "d">>, <<"a", "d">>>>,
     <<<<"a", "b", "a", "a">>, <<"a", "a", "c", "b">>, <<"b", "b", "c", "c">>>>}

\* the values of max_retries_per_position
SmartMaxRetries == {0, 1, 3}

\* SmartGenerator(analysis, max_retries_per_position = m), built without a
\* seed: every draw comes from the secrets module
InitSmart ==
    /\ mode = "smart"
    /\ window = <<1, 256>>
    /\ \E corpus \in SmartCorpora :
          /\ consumed = corpus
          /\ result = <<AnalyzeWords(corpus, window)>>
    /\ \E m \in SmartMaxRetries : gen = NewSmartGenerator(m)
    /\ an = ResetState
    /\ ls = NewLengthStats(0)
    /\ lsCalls = <<>>
    /\ pg = <<>>
    /\ twin = <<>>

\* the width of a raw draw that reaches every index of every list and every
\* weight total, and the draws one step may make
SmartDrawRange ==
    SetMax({result[1].total_words, Cardinality(result[1].charset), 1}
           \cup DOMAIN result[1].length_stats)
SmartDraws(n) == [1..n -> 0..(SmartDrawRange - 1)]

\* generate_one() is called and runs up to the loop.  No call writes an
\* attribute of the generator, so a call on a fresh instance shows everything
\* a later call can do.
SmartGenerateOneCall ==
    /\ gen.pc = "idle"
    /\ gen.kind = "none"
    /\ \E d \in SmartDraws(3) :
          gen' = SmartGenerateOneStart([gen EXCEPT !.kind = "one"], result[1], d)
    /\ UNCHANGED <<mode, window, consumed, an, result, ls, lsCalls, twin, pg>>

\* generate_one_strict() is called and runs up to the loop
SmartStrictCall ==
    /\ gen.pc = "idle"
    /\ gen.kind = "none"
    /\ \E d \in SmartDraws(3) :
          gen' = SmartStrictStart([gen EXCEPT !.kind = "strict"], result[1], d)
    /\ UNCHANGED <<mode, window, consumed, an, result, ls, lsCalls, twin, pg>>

\* one iteration of the loop of generate_one
SmartFillStep ==
    /\ gen.pc = "fill"
    /\ gen.positions # <<>>
    /\ \E d \in SmartDraws(2) :
          \E compatible \in {SmartCompatible(gen, result[1], d[1])} :
             gen' = SmartFill(gen, result[1], d[1], d[2], compatible)
    /\ UNCHANGED <<mode, window, consumed, an, result, ls, lsCalls, twin, pg>>

\* one iteration of the loop of generate_one_strict
SmartStrictStep ==
    /\ gen.pc = "strict"
    /\ StrictContinues(gen)
    /\ \E d \in SmartDraws(2) :
          \E compatible \in {StrictCompatible(gen, result[1], d[1])} :
             gen' = SmartStrictFill(gen, result[1], d[1], d[2], compatible)
    /\ UNCHANGED <<mode, window, consumed, an, result, ls, lsCalls, twin, pg>>

\* the loop of generate_one is left: the joined result is returned
SmartFinish ==
    /\ gen.pc = "fill"
    /\ gen.positions = <<>>
    /\ gen' = SmartReturn(gen, AWord(Join(gen.result)))
    /\ UNCHANGED <<mode, window, consumed, an, result, ls, lsCalls, twin, pg>>

\* the loop of generate_one_strict is left: None while a position is open,
\* else the joined result
SmartStrictFinish ==
    /\ gen.pc = "strict"
    /\ ~StrictContinues(gen)
    /\ gen' = SmartReturn(gen, IF gen.positions # <<>> THEN NoWord
                                ELSE AWord(Join(gen.result)))
    /\ UNCHANGED <<mode, window, consumed, an, result, ls, lsCalls, twin, pg>>

NextSmart ==
    \/ SmartGenerateOneCall
    \/ SmartStrictCall
    \/ SmartFillStep
    \/ SmartStrictStep
    \/ SmartFinish
    \/ SmartStrictFinish

SpecSmart == InitSmart /\ [][NextSmart]_vars

\* the interpreter runs a started call to its end
SpecSmartFair ==
    SpecSmart /\ WF_vars(SmartStrictStep) /\ WF_vars(SmartStrictFinish)
                /\ WF_vars(SmartFillStep) /\ WF_vars(SmartFinish)

-----------------------------------------------------------------------------
\* RegexInferenceGenerator (generators/regex_gen.py)

\* the characters of the model in code-point order, the order of sorted()
CodePointOrder ==
    <<"!", "-", "1", "2", "A", "B", "a", "b", "c", "d", "e">>

\* sorted(chars)
SortedChars(chars) == SelectSeq(CodePointOrder, LAMBDA c : c \in Range(chars))

\* the characters _pattern_to_regex escapes outside and inside a class
RegexSpecial ==
    {"\\", ".", "^", "$", "*", "+", "?", "{", "}", "[", "]", "|", "(", ")"}
ClassSpecial == RegexSpecial \cup {"-"}

\* the concatenation of a sequence of strings
RECURSIVE Concat(_)
Concat(parts) == IF parts = <<>> THEN <<>> ELSE Head(parts) \o Concat(Tail(parts))

\* RegexInferenceGenerator._type_to_regex_class
TypeToRegexClass(t) ==
    IF t = "U" THEN <<"[", "A", "-", "Z", "]">>
    ELSE IF t = "l" THEN <<"[", "a", "-", "z", "]">>
    ELSE IF t = "n" THEN <<"\\", "d">>
    ELSE <<"[", "^", "a", "-", "z", "A", "-", "Z", "0", "-", "9", "]">>

\* the part of the regex _pattern_to_regex writes for one position
RegexPart(ps, t) ==
    LET chars == GetCharsByType(ps, t)
    IN IF chars = <<>> THEN TypeToRegexClass(t)
       ELSE IF Len(chars) = 1
       THEN IF chars[1] \in RegexSpecial THEN <<"\\", chars[1]>> ELSE chars
       ELSE <<"[">>
            \o Concat([i \in 1..Len(chars) |->
                          LET c == SortedChars(chars)[i]
                          IN IF c \in ClassSpecial THEN <<"\\", c>> ELSE <<c>>])
            \o <<"]">>

\* RegexInferenceGenerator._pattern_to_regex
PatternToRegex(pattern, lst) ==
    Concat([i \in 1..Len(pattern) |->
               IF (i - 1) \in DOMAIN lst.positions
               THEN RegexPart(lst.positions[i - 1], pattern[i])
               ELSE TypeToRegexClass(pattern[i])])

\* Counter.most_common(): by count, the larger first, equal counts in
\* insertion order
RECURSIVE MostCommon(_)
MostCommon(c) ==
    IF c = <<>> THEN <<>>
    ELSE LET top == CHOOSE i \in 1..Len(c) :
                       /\ \A j \in 1..Len(c) : c[j][2] <= c[i][2]
                       /\ \A j \in 1..(i - 1) : c[j][2] < c[i][2]
         IN <<c[top]>> \o MostCommon(SelectSeq(c, LAMBDA e : e # c[top]))

\* RegexInferenceGenerator._infer_patterns: length -> the regexes of its
\* patterns, the most common first
InferPatterns(res) ==
    [length \in DOMAIN res.length_stats |->
        LET common == MostCommon(res.length_stats[length].patterns)
        IN [i \in 1..Len(common) |->
               PatternToRegex(common[i][1], res.length_stats[length])]]

\* RegexInferenceGenerator(analysis, seed): outs are the outcomes of its
\* generate_one calls, secure_draws tells whether a draw was taken from the
\* secrets module
NewInferenceGenerator(res, seed) ==
    [use_secure_random |-> FALSE,
     rng |-> RngSeed(seed),
     inferred |-> InferPatterns(res),
     outs |-> <<>>,
     secure_draws |-> FALSE]

\* the RegexGenerator generate_one builds: RegexGenerator(analysis,
\* f'^{pattern}$', exclude_original, use_learned_charset=True); no seed is
\* handed on, so BaseGenerator.__init__ sets _use_secure_random
InnerRegexGenerator(pattern) ==
    [pattern |-> <<"^">> \o pattern \o <<"$">>,
     use_learned_charset |-> TRUE,
     use_secure_random |-> TRUE,
     rng |-> 0]

\* whether generate_one of RegexGenerator on the pattern draws at all: a
\* repetition count or a character of a class
RegexDraws(pattern, learned, ul) ==
    \E i \in 1..Len(ParsePattern(pattern).instructions) :
        LET instr == ParsePattern(pattern).instructions[i]
        IN \/ instr.min # instr.max
           \/ /\ instr.max > 0
              /\ instr.type \in {"alternation", "group"}
           \/ /\ instr.max > 0
              /\ instr.type = "class"
              /\ FilterByLearned(instr.chars, learned, ul) # {}

\* RegexInferenceGenerator.generate_one: raw is the draw of _choose_length,
\* out the outcome of the inner generator
InferenceGenerateOne(g, res, raw, out) ==
    LET h == AfterDraws(g, 1)
        length == WeightedChoice(LengthWeights(res), raw)
    IN IF length \notin DOMAIN g.inferred \/ g.inferred[length] = <<>>
       THEN [h EXCEPT !.outs = Append(@, NoWord)]
       ELSE LET inner == InnerRegexGenerator(g.inferred[length][1])
            IN [h EXCEPT !.outs = Append(@, out),
                         !.secure_draws =
                            @ \/ (/\ UsesSecureRandom(inner)
                                  /\ Constructs(inner.pattern)
                                  /\ RegexDraws(inner.pattern, res.charset,
                                                inner.use_learned_charset))]

\* the outcomes the inner generator may return for the length drawn with raw
InnerOutcomes(g, res, raw) ==
    LET length == WeightedChoice(LengthWeights(res), raw)
    IN IF length \notin DOMAIN g.inferred \/ g.inferred[length] = <<>>
       THEN {NoWord}
       ELSE SubGenerate(InnerRegexGenerator(g.inferred[length][1]).pattern,
                        res.charset, TRUE)

\* the corpora the generators are built on and their seeds
InferenceCorpora ==
    {<<>>,
     <<<<"a", "b">>>>,
     <<<<"a", "b">>, <<"c", "d">>>>,
     <<<<"a">>, <<"a", "1">>, <<"b", "2">>, <<"c", "d">>>>,
     <<<<"a", "-">>, <<"b", "!">>>>}
InferenceSeeds == {1, 2}

\* gen and twin are two instances built with the same seed over the same
\* AnalysisResult
InitInference ==
    /\ mode = "inference"
    /\ window = <<1, 256>>
    /\ \E corpus \in InferenceCorpora, seed \in InferenceSeeds :
          /\ consumed = corpus
          /\ result = <<AnalyzeWords(corpus, window)>>
          /\ gen = NewInferenceGenerator(AnalyzeWords(corpus, window), seed)
          /\ twin = gen
    /\ an = ResetState
    /\ ls = NewLengthStats(0)
    /\ lsCalls = <<>>
    /\ pg = <<>>

\* the width of the draw of _choose_length
InferenceDrawRange == SetMax({result[1].total_words, 1})

\* generate_one() on an instance g: _choose_length raises on an analysis
\* without lengths, else the inner generator is built and asked
InferenceStep(g) ==
    IF LengthWeights(result[1]) = <<>>
    THEN {[g EXCEPT !.outs = Append(@, Raised("ValueError"))]}
    ELSE UNION {{InferenceGenerateOne(g, result[1], d[1], out) :
                    out \in InnerOutcomes(g, result[1], d[1])} :
                d \in DrawChoices(g, 1, InferenceDrawRange)}

\* gen.generate_one(); the twin has caught up
InferenceCall ==
    /\ Len(gen.outs) = Len(twin.outs)
    /\ Len(gen.outs) < MaxCalls
    /\ gen' \in InferenceStep(gen)
    /\ UNCHANGED <<mode, window, consumed, an, result, ls, lsCalls, twin, pg>>

\* twin.generate_one().  The two instances share only the AnalysisResult,
\* which generate_one does not write.
TwinInferenceCall ==
    /\ Len(twin.outs) < Len(gen.outs)
    /\ twin' \in InferenceStep(twin)
    /\ UNCHANGED <<mode, window, consumed, an, result, ls, lsCalls, gen, pg>>

NextInference ==
    \/ InferenceCall
    \/ TwinInferenceCall

SpecInference == InitInference /\ [][NextInference]_vars

-----------------------------------------------------------------------------
\* HybridGenerator (generators/hybrid.py)

\* _select_generator: r = secrets.randbelow(1000) / 1000
SelectResolution == 1000

\* HybridGenerator(analysis, generators): one sub-generator per weight; the
\* weights are kept as given with their sum, w / total being compared as
\* w against total.  polled counts the generate_one calls made on each
\* sub-generator, outs holds what each returned last.
NewHybridGenerator(weights) ==
    [weights |-> weights,
     total |-> SeqSum(weights),
     kind |-> "none",
     polled |-> [i \in 1..Len(weights) |-> 0],
     outs |-> [i \in 1..Len(weights) |-> NoWord],
     candidates |-> <<>>,
     out |-> NoWord]

\* the cumulative weight after the first i sub-generators
CumulativeWeight(weights, i) == SeqSum(SubSeq(weights, 1, i))

\* HybridGenerator._select_generator, r / 1000 being the number drawn: the
\* first sub-generator whose cumulative normalized weight exceeds it, else
\* the last; weights that sum to 0 are not normalized
SelectGenerator(g, r) ==
    LET n == Len(g.weights)
        below(i) == IF g.total > 0
                    THEN r * g.total < CumulativeWeight(g.weights, i) * SelectResolution
                    ELSE r < CumulativeWeight(g.weights, i) * SelectResolution
    IN IF \E i \in 1..n : below(i)
       THEN CHOOSE i \in 1..n : below(i) /\ \A j \in 1..(i - 1) : ~below(j)
       ELSE n

\* HybridGenerator.generate_one: None without sub-generators, else what the
\* selected sub-generator returns (outs[k] is what sub-generator k returns
\* when asked)
HybridGenerateOne(g, r, outs) ==
    IF Len(g.weights) = 0 THEN [g EXCEPT !.out = NoWord]
    ELSE LET k == SelectGenerator(g, r)
         IN [g EXCEPT !.polled[k] = @ + 1, !.outs[k] = outs[k], !.out = outs[k]]

\* the loop of generate_blended over the sub-generators from k on: each is
\* asked once, "if word" keeps what is neither None nor empty; an exception
\* ends the call
RECURSIVE PollFrom(_, _, _)
PollFrom(g, k, outs) ==
    IF k > Len(g.weights) THEN g
    ELSE LET h == [g EXCEPT !.polled[k] = @ + 1, !.outs[k] = outs[k]]
         IN IF outs[k].kind = "raise" THEN [h EXCEPT !.out = outs[k]]
            ELSE IF outs[k].kind = "word" /\ outs[k].word # <<>>
            THEN PollFrom([h EXCEPT !.candidates = Append(@, outs[k].word)],
                          k + 1, outs)
            ELSE PollFrom(h, k + 1, outs)

\* the shortest length among the candidates
MinLen(candidates) == SetMin({Len(candidates[i]) : i \in 1..Len(candidates)})

\* a variant of Blend: the first candidate is returned whole
BlendFirstCandidate(candidates, d) ==
    IF candidates = <<>> THEN NoWord ELSE AWord(candidates[1])

\* generate_blended once the sub-generators were asked: d[i] picks the
\* candidate for position i - 1, d[1] the candidate returned whole when the
\* shortest is empty
Blend(candidates, d) ==
    IF candidates = <<>> THEN NoWord
    ELSE IF Len(candidates) = 1 THEN AWord(candidates[1])
    ELSE IF MinLen(candidates) = 0 THEN AWord(RandomChoice(candidates, d[1]))
    ELSE AWord([i \in 1..MinLen(candidates) |-> RandomChoice(candidates, d[i])[i]])

\* HybridGenerator.generate_blended
HybridGenerateBlended(g, r, outs, d) ==
    IF Len(g.weights) < 2 THEN HybridGenerateOne(g, r, outs)
    ELSE LET h == PollFrom(g, 1, outs)
         IN IF h.out.kind = "raise" THEN h
            ELSE [h EXCEPT !.out = Blend(h.candidates, d)]

\* the weights of the sub-generators a HybridGenerator is built with
HybridWeights ==
    {<<>>, <<1>>, <<1, 1>>, <<0, 0>>, <<2, 1, 1>>}

\* what generate_one of a sub-generator may do: None, the empty string
\* (RegexGenerator on a pattern like a?), a string, an exception
SubOutcomes ==
    {NoWord, AWord(<<>>), AWord(<<"a">>), AWord(<<"b", "c">>),
     AWord(<<"d", "e", "a">>), Raised("ValueError")}

\* the numbers _select_generator may draw (r of r / 1000)
SelectDraws == {0, 499, 500, 750, 999}

\* the longest string a sub-generator returns
MaxBlendLen == 3

\* HybridGenerator(analysis, generators), built without a seed
InitHybrid ==
    /\ mode = "hybrid"
    /\ window = <<1, 256>>
    /\ consumed = <<>>
    /\ result = <<>>
    /\ \E w \in HybridWeights : gen = NewHybridGenerator(w)
    /\ an = ResetState
    /\ ls = NewLengthStats(0)
    /\ lsCalls = <<>>
    /\ pg = <<>>
    /\ twin = <<>>

\* generate_one() on a fresh instance.  Neither call writes an attribute of
\* the HybridGenerator, so a call on a fresh instance shows everything a
\* later call can do.
HybridGenerateOneCall ==
    /\ gen.kind = "none"
    /\ \E r \in SelectDraws, outs \in [1..Len(gen.weights) -> SubOutcomes] :
          gen' = HybridGenerateOne([gen EXCEPT !.kind = "one"], r, outs)
    /\ UNCHANGED <<mode, window, consumed, an, result, ls, lsCalls, twin, pg>>

\* generate_blended() on a fresh instance
HybridBlendedCall ==
    /\ gen.kind = "none"
    /\ \E r \in SelectDraws, outs \in [1..Len(gen.weights) -> SubOutcomes],
          d \in [1..MaxBlendLen -> 0..(MaxBlendLen - 1)] :
          gen' = HybridGenerateBlended([gen EXCEPT !.kind = "blended"], r, outs, d)
    /\ UNCHANGED <<mode, window, consumed, an, result, ls, lsCalls, twin, pg>>

NextHybrid ==
    \/ HybridGenerateOneCall
    \/ HybridBlendedCall

SpecHybrid == InitHybrid /\ [][NextHybrid]_vars

-----------------------------------------------------------------------------
(* Properties of the analyzer and of the data model *)

\* an input entry that the specification keeps: stripped of surrounding
\* whitespace it is non-empty and its length lies inside the window
KeptEntry(line) ==
    LET w == Strip(line)
    IN Len(w) >= 1 /\ window[1] <= Len(w) /\ Len(w) <= window[2]

KeptIndexes == {i \in 1..Len(consumed) : KeptEntry(consumed[i])}

\* C1 as stated: total_words is the number of kept entries (duplicates counted)
\* and unique_words is the number of distinct kept entries of the input
C1_UniqueCountsDistinctEntries ==
    result # <<>> =>
        /\ result[1].total_words = Cardinality(KeptIndexes)
        /\ result[1].unique_words = Cardinality({consumed[i] : i \in KeptIndexes})

\* C1 (amended): analyze_words(W) returns total_words = the number of entries of
\* W that, stripped of surrounding whitespace, are non-empty and have a length
\* inside the window (duplicates counted each time), and unique_words = the
\* number of distinct stripped forms of these entries; an empty or fully
\* filtered-out input yields 0 and 0
C1_TotalAndUniqueWords ==
    result # <<>> =>
        /\ result[1].total_words = Cardinality(KeptIndexes)
        /\ result[1].unique_words = Cardinality({Strip(consumed[i]) : i \in KeptIndexes})
        /\ KeptIndexes = {} => result[1].total_words = 0 /\ result[1].unique_words = 0

\* a result over an input with a duplicate kept entry, two kept entries that
\* differ only in surrounding whitespace, and a filtered-out entry
C1_Witness ==
    /\ result # <<>>
    /\ result[1].unique_words < result[1].total_words
    /\ \E i, j \in KeptIndexes :
          consumed[i] # consumed[j] /\ Strip(consumed[i]) = Strip(consumed[j])
    /\ \E i \in 1..Len(consumed) : i \notin KeptIndexes

\* C9: after analyzing a corpus, for every retained word w and every pair of
\* distinct positions i, j of w, w[j] is in cooccurrence[w[i]][i][j]
C9_CooccurrenceRecordsEveryPair ==
    result # <<>> =>
        \A k \in KeptIndexes :
            LET w == Strip(consumed[k])
            IN \A i, j \in 0..(Len(w) - 1) :
                  i # j => w[j + 1] \in CoocGet(result[1].cooccurrence, w[i + 1], i, j)

\* a result over retained words of two different lengths, one of length 3
C9_Witness ==
    /\ result # <<>>
    /\ \E k, m \in KeptIndexes :
          Len(Strip(consumed[k])) = 3 /\ Len(Strip(consumed[m])) = 2

\* number of add_word calls that succeeded
LsSucceeded == Cardinality({i \in 1..Len(lsCalls) : lsCalls[i][2] = "ok"})

\* C10: after any sequence of add_word calls on a LengthStats, successful or
\* rejected, the sum of the values of patterns equals count, and count equals
\* the number of calls that succeeded
C10_PatternsSumToCount ==
    mode = "length_stats" =>
        /\ CounterSum(ls.patterns) = ls.count
        /\ ls.count = LsSucceeded

\* a LengthStats after a rejected call and successful calls of two patterns
C10_Witness ==
    /\ mode = "length_stats"
    /\ Len(ls.patterns) >= 2
    /\ ls.count >= 3
    /\ \E i \in 1..Len(lsCalls) : lsCalls[i][2] = "ValueError"

\* the last add_word call: its word and its outcome
LsLast == lsCalls[Len(lsCalls)]

\* C11: add_word called with a word whose length differs from the length of the
\* LengthStats fails with an error and leaves count, patterns and the character
\* and type counts of every position unchanged
C11_WrongLengthRejectedUnchanged ==
    [][(mode = "length_stats" /\ Len(lsCalls') = Len(lsCalls) + 1
        /\ Len(lsCalls'[Len(lsCalls')][1]) # ls.length)
       => /\ lsCalls'[Len(lsCalls')][2] = "ValueError"
          /\ ls'.count = ls.count
          /\ ls'.patterns = ls.patterns
          /\ ls'.positions = ls.positions]_vars

\* a LengthStats of length 1 that holds words has just rejected a longer word
C11_Witness ==
    /\ mode = "length_stats"
    /\ ls.length = 1
    /\ ls.count >= 1
    /\ lsCalls # <<>>
    /\ LsLast[2] = "ValueError"
    /\ Len(LsLast[1]) = 2

\* C12: after any sequence of add_word calls on a LengthStats of length L,
\* every position 0..L-1 has a PositionStats (also before any word is added)
\* whose type counts and character counts both sum to the count of the
\* LengthStats
C12_PositionTotalsEqualCount ==
    mode = "length_stats" =>
        /\ DOMAIN ls.positions = 0..(ls.length - 1)
        /\ \A i \in DOMAIN ls.positions :
              /\ CounterSum(ls.positions[i].type_counts) = ls.count
              /\ CounterSum(ls.positions[i].char_counts) = ls.count

\* a LengthStats of length 2 after a rejected call and three words, two types
\* and two characters seen at its second position
C12_Witness ==
    /\ mode = "length_stats"
    /\ ls.length = 2
    /\ ls.count = 3
    /\ Len(ls.positions[1].type_counts) = 2
    /\ Len(ls.positions[1].char_counts) = 2
    /\ \E i \in 1..Len(lsCalls) : lsCalls[i][2] = "ValueError"

\* the class symbol the specification gives a character
ClassSymbol(c) ==
    CASE c \in UpperChars -> "U"
      [] c \in LowerChars -> "l"
      [] c \in DigitChars -> "n"
      [] OTHER -> "@"

\* the words add_word accepted so far, as indexes of lsCalls
LsAccepted == {i \in 1..Len(lsCalls) : lsCalls[i][2] = "ok"}

\* w has the class shape p
HasShape(w, p) == Len(p) = Len(w) /\ \A i \in 1..Len(w) : p[i] = ClassSymbol(w[i])

\* C13: every pattern key of a LengthStats of length L has length L, and for
\* every pattern p, patterns[p] is the number of added words of which p is the
\* class shape: the i-th symbol of p is U, l, n or @ as the i-th character is
\* uppercase, lowercase, a digit or anything else
C13_PatternIsClassShape ==
    mode = "length_stats" =>
        /\ \A k \in 1..Len(ls.patterns) : Len(ls.patterns[k][1]) = ls.length
        /\ \A p \in UNION {[1..n -> TypeCodes] : n \in LsLengths} :
              CounterGet(ls.patterns, p) =
                  Cardinality({i \in LsAccepted : HasShape(lsCalls[i][1], p)})

\* two words of the shape ln and one of the shape U@ were added
C13_Witness ==
    /\ mode = "length_stats"
    /\ CounterGet(ls.patterns, <<"l", "n">>) = 2
    /\ CounterGet(ls.patterns, <<"U", "@">>) = 1

\* a Counter as Python compares it: the mapping, whatever the insertion order
CounterMap(c) == {<<c[i][1], c[i][2]>> : i \in 1..Len(c)}

\* a LengthStats with every Counter taken as a mapping
LengthStatsMap(l) ==
    [length |-> l.length,
     count |-> l.count,
     positions |-> [i \in DOMAIN l.positions |->
                      [char_counts |-> CounterMap(l.positions[i].char_counts),
                       type_counts |-> CounterMap(l.positions[i].type_counts)]],
     patterns |-> CounterMap(l.patterns)]

\* the fields of an AnalysisResult, every dict and Counter taken as a mapping
ResultFields(r) ==
    [total_words |-> r.total_words,
     unique_words |-> r.unique_words,
     charset |-> r.charset,
     discarded_charset |-> r.discarded_charset,
     length_stats |-> [k \in DOMAIN r.length_stats |-> LengthStatsMap(r.length_stats[k])],
     global_char_frequency |-> CounterMap(r.global_char_frequency),
     global_type_frequency |-> CounterMap(r.global_type_frequency),
     min_length |-> r.min_length,
     max_length |-> r.max_length,
     cooccurrence |-> r.cooccurrence]

\* the list ws rearranged by the permutation p of its indexes
Permuted(ws, p) == [i \in 1..Len(ws) |-> ws[p[i]]]

\* C15: for every word list W and every permutation W' of W, analyzers with
\* the same length window return results that agree on every field:
\* total_words, unique_words, charset, discarded charset, per-length counts,
\* per-position character and type counts, pattern histograms, global
\* character and type frequencies, min and max length, co-occurrence sets
C15_AnalysisIgnoresWordOrder ==
    (mode = "analyzer" /\ result # <<>>) =>
        \A p \in Permutations(1..Len(consumed)) :
            ResultFields(AnalyzeWords(Permuted(consumed, p), window))
                = ResultFields(result[1])

\* three retained words of two lengths were analysed, and some rearrangement
\* of them fills the global character Counter in another insertion order
C15_Witness ==
    /\ mode = "analyzer"
    /\ result # <<>>
    /\ result[1].total_words = 3
    /\ Cardinality(DOMAIN result[1].length_stats) = 2
    /\ \E p \in Permutations(1..Len(consumed)) :
          AnalyzeWords(Permuted(consumed, p), window).global_char_frequency
              # result[1].global_char_frequency

\* the entries that are neither empty, whitespace-only nor outside the window,
\* the length of an entry being that of the entry as given
KeptAsGiven ==
    {i \in 1..Len(consumed) :
        /\ Strip(consumed[i]) # <<>>
        /\ window[1] <= Len(consumed[i])
        /\ Len(consumed[i]) <= window[2]}

\* the result counts exactly the entries of kept, stripped: the keys lie in the
\* window and have a count of at least 1, every count, the charset and the
\* co-occurrence sets come from those entries alone, and min_length and
\* max_length are the smallest and largest key, 0 without keys
CountsExactly(kept) ==
    LET r == result[1]
        w(i) == Strip(consumed[i])
        keys == DOMAIN r.length_stats
    IN /\ \A L \in keys :
             /\ window[1] <= L /\ L <= window[2]
             /\ r.length_stats[L].count >= 1
       /\ keys = {Len(w(i)) : i \in kept}
       /\ \A L \in keys :
             r.length_stats[L].count = Cardinality({i \in kept : Len(w(i)) = L})
       /\ r.total_words = Cardinality(kept)
       /\ r.charset = UNION {Range(w(i)) : i \in kept}
       /\ r.cooccurrence =
             UNION {{<<w(i)[a + 1], a, b, w(i)[b + 1]>> :
                        a \in 0..(Len(w(i)) - 1), b \in 0..(Len(w(i)) - 1)}
                    \ {<<w(i)[a + 1], a, a, w(i)[a + 1]>> : a \in 0..(Len(w(i)) - 1)}
                    : i \in kept}
       /\ r.min_length = IF keys = {} THEN 0 ELSE SetMin(keys)
       /\ r.max_length = IF keys = {} THEN 0 ELSE SetMax(keys)

\* C18 as stated: every key L of length_stats satisfies min_length <= L <=
\* max_length and has count >= 1, entries that are empty, whitespace-only or
\* outside the window contribute to no count, charset or co-occurrence set, and
\* min_length and max_length of the result are the smallest and largest key
\* (0 when no word was retained)
C18_EntriesOutsideWindowSkipped ==
    (mode = "analyzer" /\ result # <<>>) => CountsExactly(KeptAsGiven)

\* C18, amended: the same, an entry being outside the window when its length
\* after stripping surrounding whitespace is
C18_StrippedOutsideWindowSkipped ==
    (mode = "analyzer" /\ result # <<>>) => CountsExactly(KeptIndexes)

\* with the window [2, 2], three entries were read: a whitespace-only one, one
\* that is too short and one that was retained
C18_Witness ==
    /\ mode = "analyzer"
    /\ result # <<>>
    /\ window = <<2, 2>>
    /\ Len(consumed) = 3
    /\ result[1].total_words = 1
    /\ \E i \in 1..3 : Strip(consumed[i]) = <<>> /\ consumed[i] # <<>>
    /\ \E i \in 1..3 : Len(Strip(consumed[i])) = 1

-----------------------------------------------------------------------------
(* Properties of BaseGenerator.generate *)

\* the attempts the specification allows a generate call
AllowedAttempts ==
    IF gen.max_attempts = 0 THEN gen.count * 100 ELSE gen.max_attempts

\* C2: for every generate(count, max_attempts) the loop terminates, generate_one
\* is invoked at most max_attempts times (count * 100 when max_attempts is 0),
\* it is not invoked once count strings are collected, and the returned list,
\* possibly shorter than count, has at most count elements
C2_GenerateBoundedAndTerminates ==
    /\ [](gen.attempts <= AllowedAttempts /\ Len(gen.results) <= gen.count)
    /\ [][gen'.attempts = gen.attempts + 1 =>
            Len(gen.results) < gen.count /\ gen.attempts < AllowedAttempts]_vars
    /\ [][gen.pc = "loop" /\ gen'.pc = "idle" =>
            /\ gen'.returned = Append(gen.returned, gen.results)
            /\ Len(gen.results) <= gen.count]_vars
    /\ (gen.pc = "loop") ~> (gen.pc = "idle")

\* a call that used up its default budget of count * 100 attempts and returned
\* fewer than count strings
C2_Witness ==
    /\ gen.pc = "idle"
    /\ gen.calls >= 1
    /\ gen.max_attempts = 0
    /\ gen.count = 1
    /\ gen.attempts = 100
    /\ gen.returned[Len(gen.returned)] = <<>>

RECURSIVE Flatten(_)
Flatten(ss) == IF ss = <<>> THEN <<>> ELSE Head(ss) \o Flatten(Tail(ss))

\* C3: after any sequence of generate calls with allow_duplicates = False on one
\* generator, the strings returned so far are pairwise distinct, within one call
\* and across calls, and with exclude_original none of them is an original word
C3_ReturnedDistinctAndNotOriginal ==
    (mode = "generate" /\ gen.defaults_only) =>
        LET all == Flatten(gen.returned)
        IN /\ \A i, j \in 1..Len(all) : i # j => all[i] # all[j]
           /\ gen.exclude_original => \A i \in 1..Len(all) : all[i] \notin gen.original

\* two calls returned: the first the only word that is not an original, the
\* second nothing, every attempt of it having been discarded
C3_Witness ==
    /\ mode = "generate"
    /\ gen.defaults_only
    /\ gen.exclude_original
    /\ gen.original # {}
    /\ gen.pc = "idle"
    /\ Len(gen.returned) = 2
    /\ Len(gen.returned[1]) = 1
    /\ gen.returned[2] = <<>>
    /\ gen.count = 2
    /\ gen.attempts = gen.budget

-----------------------------------------------------------------------------
(* Properties of RandomGenerator *)

\* C4: for every AnalysisResult, including one of an empty corpus, generate on a
\* RandomGenerator never raises; insufficient data only shows as None or as a
\* shorter result list
C4_GenerateNeverRaises ==
    mode = "random" => ~gen.raised

\* C5: two RandomGenerator instances constructed with the same seed over the
\* same AnalysisResult and driven by the same sequence of generate calls return
\* the same strings in the same order
C5_SameSeedSameOutput ==
    mode = "random" =>
        /\ \A k \in 1..Len(twin.returned) :
              k <= Len(gen.returned) /\ twin.returned[k] = gen.returned[k]
        /\ (twin.pc = "idle" /\ twin.calls = gen.calls /\ gen.pc = "idle") =>
              twin.raised = gen.raised /\ Len(twin.returned) = Len(gen.returned)

\* both instances returned from two calls, the second call returning strings
\* that differ from those of the first
C5_Witness ==
    /\ mode = "random"
    /\ Len(gen.returned) = 2
    /\ Len(twin.returned) = 2
    /\ Len(gen.returned[1]) >= 1
    /\ Len(gen.returned[2]) = 2

-----------------------------------------------------------------------------
(* Properties of PatternGenerator *)

\* the patterns recorded for length n, none for an unobserved length
ObservedPatterns(n) ==
    IF n \in DOMAIN result[1].length_stats
    THEN Range(CounterKeys(result[1].length_stats[n].patterns))
    ELSE {}

\* C7: for every pattern string p passed to generate_from_explicit_pattern,
\* whether or not len(p) is an observed length, the call returns None or a
\* string s with len(s) = len(p) whose character at every position i has the
\* character class p[i]
C7_ExplicitPatternIsFollowed ==
    (mode = "pattern" /\ pg.pc = "idle" /\ pg.kind = "explicit") =>
        \/ pg.out.kind = "none"
        \/ /\ pg.out.kind = "word"
           /\ Len(pg.out.word) = Len(pg.pattern)
           /\ \A i \in 1..Len(pg.pattern) : FromChar(pg.out.word[i]) = pg.pattern[i]

\* an explicit pattern of an observed length that no training word has, one
\* position of it filled from the global charset, returned a string
C7_Witness ==
    /\ mode = "pattern"
    /\ pg.pc = "idle"
    /\ pg.kind = "explicit"
    /\ pg.out.kind = "word"
    /\ Len(pg.pattern) = 2
    /\ Len(pg.pattern) \in DOMAIN result[1].length_stats
    /\ pg.pattern \notin ObservedPatterns(Len(pg.pattern))

\* C8: every string returned by generate_one has an observed length L and a
\* derived type pattern that is recorded in length_stats[L].patterns
C8_GenerateOneFollowsObservedPattern ==
    (mode = "pattern" /\ pg.pc = "idle" /\ pg.kind = "one" /\ pg.out.kind = "word") =>
        /\ Len(pg.out.word) \in DOMAIN result[1].length_stats
        /\ PatternOf(pg.out.word) \in ObservedPatterns(Len(pg.out.word))

\* generate_one returned a string of length 3 that is not a training word
C8_Witness ==
    /\ mode = "pattern"
    /\ pg.pc = "idle"
    /\ pg.kind = "one"
    /\ pg.out.kind = "word"
    /\ Len(pg.out.word) = 3
    /\ pg.out.word \notin Range(consumed)

-----------------------------------------------------------------------------
(* Properties of RegexGenerator *)

\* generate_one has returned (a string or None)
RegexReturned ==
    mode = "regex" /\ gen.pc = "idle" /\ gen.calls > 0 /\ gen.out.kind # "raise"

\* C6: every string returned by RegexGenerator.generate_one fully matches the
\* pattern the generator was built on, and a candidate assembled from the
\* instruction list that does not fully match is returned as None
C6_ReturnedFullyMatches ==
    RegexReturned =>
        /\ gen.out.kind = "word" => FullMatch(Compile(gen.pattern), gen.out.word)
        /\ ~FullMatch(Compile(gen.pattern), gen.assembled) => gen.out.kind = "none"

\* a candidate that does not match, an option of the alternation having been
\* appended as text, was returned as None, and its empty prefix does match
C6_Witness ==
    /\ RegexReturned
    /\ gen.out.kind = "none"
    /\ gen.assembled = <<"a", "?">>
    /\ PrefixMatch(Compile(gen.pattern), gen.assembled)

-----------------------------------------------------------------------------
(* Properties of RegexGenerator._parse_pattern *)

\* one element of each kind: plain literal, escaped literal, escape class,
\* bracket class, dot, group, alternation
QuantifiedElements ==
    {<<"a">>, <<"\\", ".">>, <<"\\", "d">>, <<"[", "a", "b", "]">>, <<".">>,
     <<"(", "a", "b", ")">>, <<"(", "a", "|", "b", ")">>}

\* the quantifiers as written, with the bounds they stand for
WrittenQuantifiers ==
    {[text |-> <<>>, min |-> 1, max |-> 1],
     [text |-> <<"?">>, min |-> 0, max |-> 1],
     [text |-> <<"*">>, min |-> 0, max |-> 10],
     [text |-> <<"+">>, min |-> 1, max |-> 10],
     [text |-> <<"{", "2", "}">>, min |-> 2, max |-> 2],
     [text |-> <<"{", "1", ",", "2", "}">>, min |-> 1, max |-> 2]}

\* C21: every instruction produced by compiling a pattern, of every kind,
\* carries the quantifier written directly after its element (? is {0,1}, * is
\* {0,10}, + is {1,10}, {m,n} is {m,n}, {m} is {m,m}, none is {1,1}), and the
\* quantifier text is not parsed again as literal characters: an element
\* followed by a quantifier compiles to one instruction with those bounds
C21_QuantifierFollowsElement ==
    mode = "regex" =>
        \A e \in QuantifiedElements, q \in WrittenQuantifiers :
            gen.pattern = e \o q.text =>
                /\ Len(gen.parsed) = 1
                /\ gen.parsed[1].min = q.min
                /\ gen.parsed[1].max = q.max

\* C22: for every pattern with which the construction of a RegexGenerator
\* succeeds, every call of generate_one returns a string or None and never
\* raises, also when a group or an alternative is delegated to a freshly
\* constructed sub-generator
C22_RegexGenerateOneNeverRaises ==
    mode = "regex" => gen.out.kind # "raise"

-----------------------------------------------------------------------------
(* Properties of calculate_weight *)

\* the training words: the retained entries, stripped, repetitions kept
TrainingWords ==
    LET kept == {j \in 1..Len(consumed) : Retained(consumed[j], window)}
    IN [j \in kept |-> Strip(consumed[j])]

\* how many training words of the length of w have w[i] at position i
SamePlace(w, i) ==
    Cardinality({j \in DOMAIN TrainingWords :
                    /\ Len(TrainingWords[j]) = Len(w)
                    /\ TrainingWords[j][i + 1] = w[i + 1]})

\* w is a training word
IsTrainingWord(w) == \E j \in DOMAIN TrainingWords : TrainingWords[j] = w

\* no character of w was observed at its position in a word of that length
NowhereObserved(w) == \A i \in 0..(Len(w) - 1) : SamePlace(w, i) = 0

\* C16: calculate_weight(w) is the sum over the positions i of w of the number
\* of training words of length len(w) that have w[i] at position i, and 0 when
\* no training word has that length; a training word weighs at least its
\* length, and at least as much as any word of the same length none of whose
\* characters was observed at its position
C16_WeightCountsMatchingWords ==
    (mode = "weight" /\ gen.last.called) =>
        LET w == gen.last.word
        IN /\ gen.last.weight = SeqSum([k \in 1..Len(w) |-> SamePlace(w, k - 1)])
           /\ (\A j \in DOMAIN TrainingWords : Len(TrainingWords[j]) # Len(w))
                 => gen.last.weight = 0
           /\ IsTrainingWord(w) => gen.last.weight >= Len(w)
           /\ (/\ gen.previous.called
               /\ IsTrainingWord(gen.previous.word)
               /\ Len(gen.previous.word) = Len(w)
               /\ NowhereObserved(w)) => gen.previous.weight >= gen.last.weight

\* the weight of a training word that occurs twice was asked for, then that of
\* a word of the same length with no character observed at its position; the
\* training word weighs more than its length
C16_Witness ==
    /\ mode = "weight"
    /\ gen.last.called
    /\ gen.previous.called
    /\ IsTrainingWord(gen.previous.word)
    /\ gen.previous.weight > Len(gen.previous.word)
    /\ Len(gen.last.word) = Len(gen.previous.word)
    /\ Len(gen.last.word) = 2
    /\ NowhereObserved(gen.last.word)

-----------------------------------------------------------------------------
(* Properties of a returned AnalysisResult *)

\* C17: once analyze_words has returned a result, no later operation changes
\* any field of it: not generate_one, generate_one_strict, calculate_weight,
\* train_on_words or the construction of a generator, lookups of absent
\* characters and positions included, and not a further analyze_words or
\* get_word_analysis on the same analyzer
C17_ResultIsNeverChanged ==
    mode = "frozen" =>
        \A k \in 1..Len(result) : Deref(result[k]) = twin[k]

\* the analyzer was used again after a non-empty result, and a generator on the
\* first result has just looked up a placed character that no word holds and
\* a target position outside the words
C17_Witness ==
    /\ mode = "frozen"
    /\ Len(result) = 2
    /\ twin[1].total_words = 2
    /\ twin[2] # twin[1]
    /\ gen.op = "find_compatible"
    /\ gen.out = <<{}>>

-----------------------------------------------------------------------------
(* Properties of MarkovGenerator *)

\* (context, next) is a pair of consecutive window and character of some word
\* of words, padded with n start sentinels and the end sentinel
Observed(context, next, words, n) ==
    \E j \in 1..Len(words) :
        \E i \in 1..(Len(words[j]) + 1) :
            /\ SubSeq(Padded(words[j], n), i, i + n - 1) = context
            /\ Padded(words[j], n)[i + n] = next

\* a and b are adjacent, in this order, in some word of words
Adjacent(a, b, words) ==
    \E j \in 1..Len(words) :
        \E i \in 1..(Len(words[j]) - 1) : words[j][i] = a /\ words[j][i + 1] = b

LongestObserved ==
    IF DOMAIN TrainingWords = {} THEN 0
    ELSE SetMax({Len(TrainingWords[j]) : j \in DOMAIN TrainingWords})

\* C23: MarkovGenerator.generate_one always terminates, for the table built
\* from the co-occurrence data and for the word-trained one and for every
\* order, and a string it returns is at most 2 times the longest observed
\* length long (at most 20 when the analysis has no observed length), also
\* when the end sentinel is never drawn or the charset fallback is taken
\* repeatedly
C23_MarkovTerminatesWithinCap ==
    /\ []((gen.returned /\ gen.out.kind = "word") =>
            Len(gen.out.word) <= IF LongestObserved = 0 THEN 20
                                 ELSE 2 * LongestObserved)
    /\ [](gen.pc = "loop" =>
            Len(gen.result) <= IF LongestObserved = 0 THEN 20
                               ELSE 2 * LongestObserved)
    /\ (gen.pc = "loop") ~> (gen.pc = "idle")

\* a generator of order 0 on a table trained on words returned a string of
\* exactly twice the longest observed length that no transition explains: the
\* fallback was taken until the cap ended the loop
C23_Witness ==
    /\ gen.order = 0
    /\ gen.trained
    /\ gen.returned
    /\ gen.out.kind = "word"
    /\ LongestObserved = 2
    /\ Len(gen.out.word) = 4
    /\ \A k \in 1..3 : ~Adjacent(gen.out.word[k], gen.out.word[k + 1], gen.words)

-----------------------------------------------------------------------------
(* Properties of RandomGenerator.generate_one *)

\* the training words of length n
SamplesOf(n) == {j \in DOMAIN TrainingWords : Len(TrainingWords[j]) = n}

\* the characters observed at position pos of the training words of length n
ObservedAt(n, pos) == {TrainingWords[j][pos + 1] : j \in SamplesOf(n)}

\* the string s has an observed length and characters of the charset only, and
\* at a position where its length has more than one sample and more than one
\* distinct character was observed, its character is one observed there
FollowsPositions(s) ==
    /\ SamplesOf(Len(s)) # {}
    /\ \A k \in 1..Len(s) :
          /\ s[k] \in UNION {Range(TrainingWords[j]) : j \in DOMAIN TrainingWords}
          /\ (Cardinality(SamplesOf(Len(s))) > 1
              /\ Cardinality(ObservedAt(Len(s), k - 1)) > 1)
                => s[k] \in ObservedAt(Len(s), k - 1)

\* C19 as stated: every string returned by RandomGenerator.generate_one has an
\* observed length and consists of characters of the analysis charset; at a
\* position where that length has more than one sample and more than one
\* distinct character was observed, the character is one observed at that
\* position for that length, and otherwise it comes from the global charset
C19_PositionCharsetAlways ==
    (mode = "random_one" /\ gen.called /\ gen.out.kind = "word") =>
        FollowsPositions(gen.out.word)

\* C19, amended: the same for a generator built with use_position_charset set,
\* which is the default; without it only the length and the charset hold
C19_PositionCharsetWhenEnabled ==
    (mode = "random_one" /\ gen.called /\ gen.out.kind = "word") =>
        IF gen.use_position_charset
        THEN FollowsPositions(gen.out.word)
        ELSE /\ SamplesOf(Len(gen.out.word)) # {}
             /\ Range(gen.out.word) \subseteq result[1].charset

\* a generator with use_position_charset returned a string of a length with two
\* samples: one position offers two observed characters, and another, where a
\* single character was observed, holds a character never observed there
C19_Witness ==
    /\ mode = "random_one"
    /\ gen.called
    /\ gen.use_position_charset
    /\ gen.out.kind = "word"
    /\ Cardinality(SamplesOf(Len(gen.out.word))) > 1
    /\ \E k \in 1..Len(gen.out.word) :
          Cardinality(ObservedAt(Len(gen.out.word), k - 1)) > 1
    /\ \E k \in 1..Len(gen.out.word) :
          /\ Cardinality(ObservedAt(Len(gen.out.word), k - 1)) = 1
          /\ gen.out.word[k] \notin ObservedAt(Len(gen.out.word), k - 1)

-----------------------------------------------------------------------------
(* Properties of _weighted_choice *)

\* the sum of the weights of the first i items of ws
Cumulative(ws, i) == SeqSum([k \in 1..i |-> ws[k][2]])

\* the draws, out of those possible, on which the choice from ws is item
DrawsSelecting(ws, item) ==
    {r \in ChoiceDraws(ws) : WeightedChoice(ws, r) = item}

\* C20: for a non-empty weight map with non-negative integer weights and total
\* T > 0, and a draw r in 0..T-1, the weighted choice returns the first item in
\* insertion order whose cumulative weight exceeds r, so that an item of weight
\* 0 is never returned and exactly weight(item) of the T draws select each
\* item; with T = 0 the choice is uniform over all items; an empty map is an
\* error
C20_WeightedChoiceWalksCumulative ==
    (mode = "choice" /\ gen.called) =>
        LET ws == gen.weights
            T == Cumulative(ws, Len(ws))
        IN IF ws = <<>> THEN gen.out.kind = "raise"
           ELSE /\ gen.out.kind = "word"
                /\ IF T > 0
                   THEN /\ \E i \in 1..Len(ws) :
                              /\ Cumulative(ws, i) > gen.raw
                              /\ \A j \in 1..(i - 1) : Cumulative(ws, j) <= gen.raw
                              /\ gen.out.word = <<ws[i][1]>>
                              /\ ws[i][2] > 0
                        /\ \A i \in 1..Len(ws) :
                              Cardinality(DrawsSelecting(ws, ws[i][1])) = ws[i][2]
                   ELSE /\ gen.out.word = <<ws[gen.raw + 1][1]>>
                        /\ \A i \in 1..Len(ws) :
                              Cardinality(DrawsSelecting(ws, ws[i][1])) = 1

\* a map of three items whose first has weight 0 and whose second has more
\* than 1: the draw passed both and selected the third
C20_Witness ==
    /\ mode = "choice"
    /\ gen.called
    /\ Len(gen.weights) = 3
    /\ gen.weights[1][2] = 0
    /\ gen.weights[2][2] > 1
    /\ gen.out = AWord(<<gen.weights[3][1]>>)

-----------------------------------------------------------------------------
\* Properties of SmartGenerator

\* the characters observed at position pos in the words of the given length
SmartObservedAt(res, length, pos) ==
    Range(CounterKeys(res.length_stats[length].positions[pos].char_counts))

\* C24: whenever generate_one fills a position from the compatible set, the
\* character it places was observed at that position in words of the chosen
\* length and belongs to cooccurrence[c][p][pos] for every character c already
\* placed at a position p, however c came to be placed
C24_CompatibleFillAgreesWithEveryPlaced ==
    (mode = "smart" /\ gen.kind = "one" /\ gen.how = "compatible") =>
        LET char == gen.result[gen.pos + 1]
        IN /\ char \in SmartObservedAt(result[1], gen.length, gen.pos)
           /\ \A p \in 0..(gen.length - 1) :
                 gen.before[p + 1] # "" =>
                    char \in CoocGet(result[1].cooccurrence, gen.before[p + 1], p,
                                     gen.pos)

\* what generate_one_strict holds at every moment of a call that chose a
\* length: no character from the global charset, the retries within their
\* bound, every placed character observed at its position, every two placed
\* characters seen together
StrictState ==
    (mode = "smart" /\ gen.kind = "strict" /\ gen.out.kind # "raise"
                    /\ gen.length > 0) =>
        /\ gen.how \in {"position", "compatible"}
        /\ gen.retries <= gen.max_retries * gen.length
        /\ gen.length \in DOMAIN result[1].length_stats
        /\ \A p \in 0..(gen.length - 1) :
              gen.result[p + 1] # "" =>
                 /\ gen.result[p + 1] \in SmartObservedAt(result[1], gen.length, p)
                 /\ \A q \in 0..(gen.length - 1) :
                       (q # p /\ gen.result[q + 1] # "") =>
                          gen.result[q + 1] \in
                             CoocGet(result[1].cooccurrence, gen.result[p + 1], p, q)

\* what generate_one_strict returns: a string with every position filled, or
\* None with a position open after max_retries * length attempts in a row
StrictReturned ==
    (mode = "smart" /\ gen.kind = "strict" /\ gen.pc = "idle"
                    /\ result[1].total_words > 0) =>
        \/ /\ gen.out.kind = "word"
           /\ Len(gen.out.word) = gen.length
           /\ gen.out.word = gen.result
           /\ gen.positions = <<>>
        \/ /\ gen.out = NoWord
           /\ gen.positions # <<>>
           /\ gen.retries = gen.max_retries * gen.length

\* C25: generate_one_strict terminates; it returns None or a string of the
\* chosen observed length with every position filled, every character observed
\* at its position in words of that length and, for every two positions p and
\* q, the character at q in cooccurrence[result[p]][p][q]; no character comes
\* from the global charset; None is returned once max_retries * length attempts
\* in a row found no compatible character
C25_StrictTerminatesCompatible ==
    /\ [](StrictState /\ StrictReturned)
    /\ (mode = "smart" /\ gen.pc = "strict") ~> (gen.pc = "idle")

\* C25 witness: a strict call returned a four-character string
C25_Witness ==
    /\ mode = "smart"
    /\ gen.kind = "strict"
    /\ gen.pc = "idle"
    /\ gen.out.kind = "word"
    /\ Len(gen.out.word) = 4

\* a strict call gave up: a position is open after max_retries * length > 0
\* attempts in a row
StrictGaveUp ==
    /\ mode = "smart"
    /\ gen.kind = "strict"
    /\ gen.pc = "idle"
    /\ gen.out = NoWord
    /\ gen.retries > 0

-----------------------------------------------------------------------------
\* Properties of seeded generators

\* C26: a generator constructed with a seed takes every draw, those of the
\* generators it creates included, from the source the seed determines and
\* none from the secrets module, and two instances built with the same seed
\* return the same sequence of outputs
C26_SeededDrawsAreDeterministic ==
    mode = "inference" =>
        /\ ~gen.secure_draws
        /\ ~twin.secure_draws
        /\ Len(gen.outs) = Len(twin.outs) => gen.outs = twin.outs

-----------------------------------------------------------------------------
\* Properties of HybridGenerator.generate_blended

\* the sub-generators whose answer generate_blended keeps: neither None nor
\* the empty string
Kept(g) == {k \in 1..Len(g.weights) : g.outs[k].kind = "word" /\ g.outs[k].word # <<>>}

\* the sub-generators that answered with a string, the empty one included
NotNone(g) == {k \in 1..Len(g.weights) : g.outs[k].kind = "word"}

\* a generate_blended call on at least two sub-generators returned and none
\* of them raised
Blended(g) ==
    /\ mode = "hybrid"
    /\ g.kind = "blended"
    /\ Len(g.weights) >= 2
    /\ g.out.kind # "raise"

\* every sub-generator was asked exactly once; the result of two or more
\* answers S has the length of the shortest and takes each character from
\* one of them at the same position
BlendOf(g, S) ==
    /\ \A k \in 1..Len(g.weights) : g.polled[k] = 1
    /\ Cardinality(S) >= 2 /\ (\A k \in S : g.outs[k].word # <<>>) =>
          /\ g.out.kind = "word"
          /\ Len(g.out.word) = SetMin({Len(g.outs[k].word) : k \in S})
          /\ \A i \in 1..Len(g.out.word) :
                \E k \in S : g.out.word[i] = g.outs[k].word[i]

\* with fewer than two sub-generators generate_blended is generate_one: None
\* without a sub-generator, else the answer of the only one, asked once
BlendedAsGenerateOne(g) ==
    (mode = "hybrid" /\ g.kind = "blended" /\ Len(g.weights) < 2) =>
        /\ Len(g.weights) = 0 => g.out = NoWord
        /\ Len(g.weights) = 1 => g.polled[1] = 1 /\ g.out = g.outs[1]

\* C27 as stated, a candidate being an answer that is not None: every
\* sub-generator is polled once; two or more candidates with a non-empty
\* shortest one are blended position by position to the shortest length; no
\* candidate gives None, a single candidate is returned unchanged; fewer than
\* two sub-generators behave as generate_one
C27_BlendOfNotNone ==
    /\ Blended(gen) =>
          /\ BlendOf(gen, NotNone(gen))
          /\ NotNone(gen) = {} => gen.out = NoWord
          /\ \A k \in NotNone(gen) : NotNone(gen) = {k} => gen.out = gen.outs[k]
    /\ BlendedAsGenerateOne(gen)

\* C27 (amended): the same with a candidate being an answer that is neither
\* None nor the empty string; empty answers are dropped like None
C27_BlendOfKept ==
    /\ Blended(gen) =>
          /\ BlendOf(gen, Kept(gen))
          /\ Kept(gen) = {} => gen.out = NoWord
          /\ \A k \in Kept(gen) : Kept(gen) = {k} => gen.out = gen.outs[k]
    /\ BlendedAsGenerateOne(gen)

\* C27 witness: three sub-generators answered with strings of lengths 1, 2
\* and 3 and generate_blended returned a string of length 1
C27_Witness ==
    /\ Blended(gen)
    /\ Cardinality(Kept(gen)) = 3
    /\ gen.out.kind = "word"
    /\ Len(gen.out.word) = 1

-----------------------------------------------------------------------------
\* Properties of RegexGenerator._filter_by_learned

\* the instruction a running generate_one executes next is a class
AtClass ==
    /\ mode = "regex"
    /\ gen.pc = "run"
    /\ gen.next < Len(gen.parsed)
    /\ gen.parsed[gen.next + 1].type = "class"

\* what one repetition of the class instruction at hand may append: a
\* character of the class that is in the corpus charset when the option is
\* set and the two share a character, else any character of the class
ClassDrawsFrom ==
    AtClass =>
        LET instr == gen.parsed[gen.next + 1]
            learned == result[1].charset
            pieces == OnePiece(instr, learned, gen.use_learned_charset)
        IN IF gen.use_learned_charset /\ instr.chars \cap learned # {}
           THEN pieces = {AWord(<<c>>) : c \in instr.chars \cap learned}
           ELSE instr.chars # {} => pieces = {AWord(<<c>>) : c \in instr.chars}

\* the characters a class instruction has appended are of the class and,
\* when the option is set and the class shares a character with the corpus
\* charset, of the corpus charset
ClassEmits ==
    (AtClass /\ gen'.pc = "run" /\ gen'.next = gen.next + 1) =>
        LET instr == gen.parsed[gen.next + 1]
            learned == result[1].charset
        IN \A i \in (Len(gen.assembled) + 1)..Len(gen'.assembled) :
              /\ gen'.assembled[i] \in instr.chars
              /\ (gen.use_learned_charset /\ instr.chars \cap learned # {}) =>
                    gen'.assembled[i] \in learned

\* C28: with use_learned_charset every character emitted for a class
\* instruction belongs to the class and, when the class shares a character
\* with the corpus charset, to the corpus charset; when they share none or
\* the option is off the character is drawn from the full class
C28_ClassDrawsFollowLearnedCharset ==
    /\ []ClassDrawsFrom
    /\ [][ClassEmits]_vars

\* C28 witness: [ab]{2} on a corpus with a and without b, the option set: the
\* class instruction has appended aa
C28_Witness ==
    /\ mode = "regex"
    /\ gen.pattern = <<"[", "a", "b", "]", "{", "2", "}">>
    /\ gen.use_learned_charset
    /\ "a" \in result[1].charset
    /\ "b" \notin result[1].charset
    /\ gen.pc = "run"
    /\ gen.next = 1
    /\ gen.assembled = <<"a", "a">>

-----------------------------------------------------------------------------
\* Properties of the co-occurrence index (PatternAnalyzer._process_word)

\* C29: the index holds nothing unobserved and is mirror-consistent: d is in
\* cooccurrence[c][i][j] only if i # j and some retained word has c at i and
\* d at j, and d is in cooccurrence[c][i][j] exactly when c is in
\* cooccurrence[d][j][i]
C29_CooccurrenceObservedAndMirrored ==
    result # <<>> =>
        /\ \A e \in result[1].cooccurrence :
              /\ e[2] # e[3]
              /\ \E k \in KeptIndexes :
                    LET w == Strip(consumed[k])
                    IN /\ e[2] < Len(w) /\ e[3] < Len(w)
                       /\ w[e[2] + 1] = e[1]
                       /\ w[e[3] + 1] = e[4]
        /\ \A e \in result[1].cooccurrence :
              e[1] \in CoocGet(result[1].cooccurrence, e[4], e[3], e[2])

\* C29 witness: a result over two retained three-character words that differ
\* in the middle: c follows a at positions 0 and 2 and mirrors it
C29_Witness ==
    /\ result # <<>>
    /\ Cardinality(KeptIndexes) >= 2
    /\ CoocGet(result[1].cooccurrence, "a", 0, 1) = {"b", "e"}
    /\ CoocGet(result[1].cooccurrence, "e", 1, 0) = {"a"}
    /\ CoocGet(result[1].cooccurrence, "c", 2, 0) = {"a"}

-----------------------------------------------------------------------------
\* Properties of what MarkovGenerator.generate_one returns

\* neither sentinel occurs in the corpus or in the words trained on
NoSentinelGiven ==
    /\ \A k \in 1..Len(consumed) : {START, END} \cap Range(consumed[k]) = {}
    /\ \A k \in 1..Len(gen.words) : {START, END} \cap Range(gen.words[k]) = {}

\* C30: when neither sentinel occurs in the corpus or the training words,
\* generate_one never returns a string holding a sentinel and never the empty
\* string: a call that drew END before any character, or found the table
\* empty, returns None
C30_NoSentinelNoEmptyString ==
    (mode = "markov" /\ NoSentinelGiven) =>
        /\ {START, END} \cap Range(gen.result) = {}
        /\ gen.returned =>
              /\ gen.out # AWord(<<>>)
              /\ gen.out.kind \in {"word", "none"}
              /\ {START, END} \cap Range(gen.out.word) = {}
              /\ (gen.result = <<>> \/ gen.transitions = <<>>) => gen.out = NoWord

\* C30 witness: after training on one empty word the table holds only the
\* transition to END, and generate_one returned None
C30_Witness ==
    /\ mode = "markov"
    /\ gen.trained
    /\ gen.words = <<<<>>>>
    /\ gen.transitions # <<>>
    /\ gen.returned
    /\ gen.out = NoWord

====
